---- MODULE Spec2Model ----
(***************************************************************************)
(* State-machine model of the forecasting-model lifecycle of              *)
(* autogluon.timeseries: TimeSeriesModelBase / AbstractTimeSeriesModel    *)
(* (abstract_timeseries_model.py).                                         *)
(*                                                                         *)
(* Encodings                                                               *)
(*   - Python None / Optional[x]: None is <<>>, a present value x is <<x>>.*)
(*   - quantile levels are written in tenths: 5 stands for 0.5, and the    *)
(*     open interval (0,1) is 0 < q < 10.  QStr is Python's str(q).        *)
(*   - times are in tenths of a second and ratios in tenths, so that       *)
(*     time_limit * ratio is exact integer arithmetic.                     *)
(*   - a str is a tuple of one-character strings, so that os.path.join,    *)
(*     os.path.dirname and str.rsplit work on substrings as in Python.     *)
(*   - a table (TimeSeriesDataFrame of predictions) is the sequence of its *)
(*     columns, each a record [col |-> label, val |-> what the column      *)
(*     holds, tf |-> the inverse transforms applied to it].                *)
(***************************************************************************)
EXTENDS Integers, Sequences, FiniteSets, TLC

VARIABLES
    heap,       \* object id -> model object (the attributes of self)
    disk,       \* file path -> pickled content
    frames,     \* caller -> the predict call it is inside of (or idle)
    ret,        \* the last finished call: what it returned or raised, what it invoked
    caller      \* the arguments of the constructor call, as the caller holds them

vars == <<heap, disk, frames, ret, caller>>

----------------------------------------------------------------------------
(* Bounds of the model *)

\* longest quantile_levels sequence passed to the constructor
MaxLen == 2
\* most keys in the hyperparameters mapping passed to the constructor
MaxKeys == 2

----------------------------------------------------------------------------
(* Python values *)

None == <<>>
Some(x) == <<x>>
IsNone(o) == o = <<>>
Val(o) == o[1]

Range(s) == {s[i] : i \in 1..Len(s)}
Contains(s, x) == \E i \in 1..Len(s) : s[i] = x

Min(a, b) == IF a <= b THEN a ELSE b

\* sorted(s) of a list of numbers
RECURSIVE Sorted(_)
Sorted(s) ==
    IF s = <<>> THEN <<>>
    ELSE LET i == CHOOSE i \in 1..Len(s) : \A j \in 1..Len(s) : s[i] <= s[j]
         IN <<s[i]>> \o Sorted([k \in 1..(Len(s) - 1) |-> IF k < i THEN s[k] ELSE s[k + 1]])

\* sorted(S) of a set of numbers
RECURSIVE SortSet(_)
SortSet(S) ==
    IF S = {} THEN <<>>
    ELSE LET lo == CHOOSE x \in S : \A y \in S : x <= y
         IN <<lo>> \o SortSet(S \ {lo})

\* list.remove(x): drops the first occurrence
RECURSIVE ListRemove(_, _)
ListRemove(s, x) ==
    IF s = <<>> THEN <<>>
    ELSE IF Head(s) = x THEN Tail(s)
    ELSE <<Head(s)>> \o ListRemove(Tail(s), x)

\* sequences over S of length at most n
SeqUpTo(S, n) == UNION {[1..k -> S] : k \in 0..n}

----------------------------------------------------------------------------
(* Quantile levels, in tenths *)

Median == 5
QOne == 10

\* the values offered to the constructor: 0, 0.1, 0.5, 0.9, 1
QUniverse == {0, 1, Median, 9, QOne}

\* str(q) for a float q
QStr(q) ==
    CASE q = 0 -> "0.0"
      [] q = 1 -> "0.1"
      [] q = 5 -> "0.5"
      [] q = 9 -> "0.9"
      [] q = 10 -> "1.0"
      [] OTHER -> "?"

----------------------------------------------------------------------------
(* str, os.path *)

SEP == "/"
REFIT_FULL_SUFFIX == <<"_", "F">>
model_file_name == <<"p">>
_oof_filename == <<"o">>
UTILS == <<"u">>

\* s.rsplit(sep, 1)[0] for a non-empty sep: s up to the last occurrence of sep,
\* the whole of s when sep does not occur
RSplitHead(s, sep) ==
    LET at == {i \in 1..Len(s) : /\ i + Len(sep) - 1 <= Len(s)
                                 /\ SubSeq(s, i, i + Len(sep) - 1) = sep}
    IN  IF at = {} THEN s
        ELSE SubSeq(s, 1, (CHOOSE i \in at : \A j \in at : j <= i) - 1)

\* os.path.join(a, b)
PathJoin(a, b) ==
    IF b # <<>> /\ b[1] = SEP THEN b
    ELSE IF a = <<>> \/ a[Len(a)] = SEP THEN a \o b
    ELSE a \o <<SEP>> \o b

\* s.rstrip(SEP)
RStrip(s) ==
    LET keep == {n \in 0..Len(s) : n = 0 \/ s[n] # SEP}
    IN  SubSeq(s, 1, CHOOSE n \in keep : \A k \in keep : k <= n)

\* os.path.dirname(p): p up to its last separator, trailing separators
\* stripped unless nothing else is left
DirName(p) ==
    LET at == {i \in 1..Len(p) : p[i] = SEP}
        i == IF at = {} THEN 0 ELSE CHOOSE n \in at : \A k \in at : k <= n
        head == SubSeq(p, 1, i)
    IN  IF head # <<>> /\ (\E j \in 1..Len(head) : head[j] # SEP) THEN RStrip(head) ELSE head

----------------------------------------------------------------------------
(* dict *)

EmptyDict == <<>>
Pop(d, k) == [x \in DOMAIN d \ {k} |-> d[x]]
Put(d, k, v) == [x \in DOMAIN d \cup {k} |-> IF x = k THEN v ELSE d[x]]
\* a merge in which the left operand wins on a shared key
Union_LeftWins(d1, d2) == [x \in DOMAIN d1 \cup DOMAIN d2 |-> IF x \in DOMAIN d1 THEN d1[x] ELSE d2[x]]
\* d1 | d2 and {**d1, **d2}: the right operand wins on a shared key
Union(d1, d2) == [x \in DOMAIN d1 \cup DOMAIN d2 |-> IF x \in DOMAIN d2 THEN d2[x] ELSE d1[x]]

----------------------------------------------------------------------------
(* Hyperparameters: a dict from keys to values.  A key is [ty, k] with ty   *)
(* its Python type; a value is [ty, v, d] with ty its Python type, v its    *)
(* repr and d its items when it is a dict.                                  *)

StrKey(k) == [ty |-> "str", k |-> k]
IntKey(k) == [ty |-> "int", k |-> k]
PyStr(v) == [ty |-> "str", v |-> v, d |-> EmptyDict]
PyInt(v) == [ty |-> "int", v |-> v, d |-> EmptyDict]
PySpace(v) == [ty |-> "Space", v |-> v, d |-> EmptyDict]
PyDict(d) == [ty |-> "dict", v |-> "", d |-> d]

AG_ARGS_FIT == StrKey("ag_args_fit")

\* the auxiliary-argument dicts offered: a cap of 50 s, a ratio of 0.5
AuxDicts ==
    { EmptyDict,
      [k \in {"max_time_limit"} |-> 500],
      [k \in {"max_time_limit_ratio"} |-> 5],
      [k \in {"max_time_limit", "max_time_limit_ratio"} |->
          IF k = "max_time_limit" THEN 500 ELSE 5] }

HPKeys ==
    { StrKey("target_scaler"), StrKey("covariate_scaler"), StrKey("covariate_regressor"),
      StrKey("epochs"), IntKey("7"), AG_ARGS_FIT }

HPValues(key) ==
    CASE key = StrKey("target_scaler") -> {PyStr("standard")}
      [] key = StrKey("covariate_scaler") -> {PyStr("global")}
      [] key = StrKey("covariate_regressor") -> {PyStr("LR")}
      [] key = StrKey("epochs") -> {PyInt("10"), PySpace("Int(1,10)")}
      [] key = IntKey("7") -> {PyStr("x")}
      [] key = AG_ARGS_FIT -> {PyInt("5")} \cup {PyDict(d) : d \in AuxDicts}

\* the hyperparameters arguments offered to the constructor (None included)
HPInputs ==
    {None} \cup
    { Some(f) : f \in UNION { {g \in [K -> UNION {HPValues(k) : k \in K}] :
                                  \A k \in K : g[k] \in HPValues(k)} :
                              K \in {K \in SUBSET HPKeys : Cardinality(K) <= MaxKeys} } }

----------------------------------------------------------------------------
(* Objects *)

\* the evaluation metrics offered: one optimized by the median, one not
Metrics == { [name |-> "MASE", optimized_by_median |-> TRUE],
             [name |-> "WQL", optimized_by_median |-> FALSE] }

\* the concrete subclasses offered, by the tags _more_tags gives them
Classes == { [can_use_train_data |-> TRUE, can_use_val_data |-> FALSE],
             [can_use_train_data |-> FALSE, can_use_val_data |-> TRUE] }

\* an attribute holding a transform: not assigned yet (the class body only
\* annotates it), None, or a transform object with the data it was fit on
Unset == [st |-> "unset", kind |-> "", fit_on |-> ""]
NoTransform == [st |-> "None", kind |-> "", fit_on |-> ""]
Transform(kind) == [st |-> "obj", kind |-> kind, fit_on |-> ""]

\* the names and root paths offered to the constructor
Names == { <<"m">> }
Roots == { <<"r">> }

\* _check_and_split_hyperparameters raising on a key that is not a str
_check_and_split_hyperparameters_StrictKeys(hyperparameters) ==
    LET hp == IF IsNone(hyperparameters) THEN EmptyDict ELSE Val(hyperparameters)
        warned == \E k \in DOMAIN hp : k.ty # "str"
        extra == IF AG_ARGS_FIT \in DOMAIN hp THEN hp[AG_ARGS_FIT] ELSE PyDict(EmptyDict)
    IN  IF extra.ty # "dict" \/ warned
        THEN [exc |-> "ValueError", warned |-> warned, arg |-> hyperparameters,
              hyperparameters |-> EmptyDict, extra_ag_args |-> EmptyDict]
        ELSE [exc |-> "", warned |-> warned, arg |-> hyperparameters,
              hyperparameters |-> Pop(hp, AG_ARGS_FIT), extra_ag_args |-> extra.d]

\* _check_and_split_hyperparameters popping the key from the caller's mapping
_check_and_split_hyperparameters_InPlace(hyperparameters) ==
    LET hp == IF IsNone(hyperparameters) THEN EmptyDict ELSE Val(hyperparameters)
        warned == \E k \in DOMAIN hp : k.ty # "str"
        extra == IF AG_ARGS_FIT \in DOMAIN hp THEN hp[AG_ARGS_FIT] ELSE PyDict(EmptyDict)
        popped == IF IsNone(hyperparameters) THEN None ELSE Some(Pop(hp, AG_ARGS_FIT))
    IN  IF extra.ty # "dict"
        THEN [exc |-> "ValueError", warned |-> warned, arg |-> popped,
              hyperparameters |-> EmptyDict, extra_ag_args |-> EmptyDict]
        ELSE [exc |-> "", warned |-> warned, arg |-> popped,
              hyperparameters |-> Pop(hp, AG_ARGS_FIT), extra_ag_args |-> extra.d]

\* TimeSeriesModelBase._check_and_split_hyperparameters: works on a deep copy,
\* arg is the caller's mapping after the call
_check_and_split_hyperparameters(hyperparameters) ==
    LET hp == IF IsNone(hyperparameters) THEN EmptyDict ELSE Val(hyperparameters)
        warned == \E k \in DOMAIN hp : k.ty # "str"
        extra == IF AG_ARGS_FIT \in DOMAIN hp THEN hp[AG_ARGS_FIT] ELSE PyDict(EmptyDict)
    IN  IF extra.ty # "dict"
        THEN [exc |-> "ValueError", warned |-> warned, arg |-> hyperparameters,
              hyperparameters |-> EmptyDict, extra_ag_args |-> EmptyDict]
        ELSE [exc |-> "", warned |-> warned, arg |-> hyperparameters,
              hyperparameters |-> Pop(hp, AG_ARGS_FIT), extra_ag_args |-> extra.d]

\* InitQuantiles tagging the median for removal also when it was requested
InitQuantiles_AlwaysDrops(quantile_levels) ==
    IF ~ \A i \in 1..Len(quantile_levels) : 0 < quantile_levels[i] /\ quantile_levels[i] < QOne
    THEN [exc |-> "ValueError", quantile_levels |-> <<>>, must_drop_median |-> FALSE]
    ELSE IF ~ Contains(quantile_levels, Median)
    THEN [exc |-> "", must_drop_median |-> TRUE,
          quantile_levels |-> SortSet({Median} \cup Range(quantile_levels))]
    ELSE [exc |-> "", must_drop_median |-> TRUE, quantile_levels |-> quantile_levels]

\* InitQuantiles accepting the bounds 0 and 1
InitQuantiles_Inclusive(quantile_levels) ==
    IF ~ \A i \in 1..Len(quantile_levels) : 0 <= quantile_levels[i] /\ quantile_levels[i] <= QOne
    THEN [exc |-> "ValueError", quantile_levels |-> <<>>, must_drop_median |-> FALSE]
    ELSE IF ~ Contains(quantile_levels, Median)
    THEN [exc |-> "", must_drop_median |-> TRUE,
          quantile_levels |-> SortSet({Median} \cup Range(quantile_levels))]
    ELSE [exc |-> "", must_drop_median |-> FALSE, quantile_levels |-> quantile_levels]

\* TimeSeriesModelBase.__init__ up to the assignment of quantile_levels and
\* must_drop_median
InitQuantiles(quantile_levels) ==
    IF ~ \A i \in 1..Len(quantile_levels) : 0 < quantile_levels[i] /\ quantile_levels[i] < QOne
    THEN [exc |-> "ValueError", quantile_levels |-> <<>>, must_drop_median |-> FALSE]
    ELSE IF ~ Contains(quantile_levels, Median)
    THEN [exc |-> "", must_drop_median |-> TRUE,
          quantile_levels |-> SortSet({Median} \cup Range(quantile_levels))]
    ELSE [exc |-> "", must_drop_median |-> FALSE, quantile_levels |-> quantile_levels]

\* TimeSeriesModelBase.__init__ / AbstractTimeSeriesModel.__init__: the
\* exception raised ("" for none), the check that raised it, and the object built
__init__(cls, path, name, hyperparameters, quantile_levels, eval_metric) ==
    LET q == InitQuantiles(quantile_levels)
        h == _check_and_split_hyperparameters(hyperparameters)
    IN  [exc |-> IF q.exc # "" THEN q.exc ELSE h.exc,
         failed |-> IF q.exc # "" THEN "quantile_levels" ELSE IF h.exc # "" THEN "hyperparameters" ELSE "",
         warned |-> q.exc = "" /\ h.warned,
         arg |-> IF q.exc = "" THEN h.arg ELSE hyperparameters,
         obj |-> [cls |-> cls,
                  name |-> name,
                  path_root |-> path,
                  path |-> PathJoin(path, name),
                  eval_metric |-> eval_metric,
                  quantile_levels |-> q.quantile_levels,
                  must_drop_median |-> q.must_drop_median,
                  _oof_predictions |-> None,
                  _hyperparameters |-> h.hyperparameters,
                  _extra_ag_args |-> h.extra_ag_args,
                  fit_time |-> None,
                  predict_time |-> None,
                  val_score |-> None,
                  params |-> None,
                  target_scaler |-> Unset,
                  covariate_scaler |-> Unset,
                  covariate_regressor |-> Unset]]

----------------------------------------------------------------------------
(* State *)

Callers == {"c1", "c2"}
Idle == [pc |-> "idle"]

\* ret before any call has finished
NoCall == [op |-> "", exc |-> ""]

Init ==
    /\ heap = EmptyDict
    /\ disk = EmptyDict
    /\ frames = [c \in Callers |-> Idle]
    /\ ret = NoCall
    /\ caller = [hyperparameters |-> None, quantile_levels |-> <<>>]

AllIdle == \A c \in Callers : frames[c] = Idle

\* the model has been constructed
Constructed == "self" \in DOMAIN heap

\* model = cls(path, name, hyperparameters, quantile_levels=..., eval_metric=...)
\* by a caller that keeps its hyperparameters mapping
Construct(cls, path, name, hyperparameters, quantile_levels, eval_metric) ==
    LET r == __init__(cls, path, name, hyperparameters, quantile_levels, eval_metric)
    IN  /\ AllIdle
        /\ "self" \notin DOMAIN heap
        /\ heap' = IF r.exc = "" THEN Put(heap, "self", r.obj) ELSE heap
        /\ ret' = [op |-> "__init__", exc |-> r.exc, failed |-> r.failed, warned |-> r.warned,
                   quantile_levels |-> quantile_levels, hyperparameters |-> hyperparameters]
        /\ caller' = [hyperparameters |-> r.arg, quantile_levels |-> quantile_levels]
        /\ UNCHANGED <<disk, frames>>

----------------------------------------------------------------------------
(* Data and transforms *)

\* a data table: where it comes from and the transform stages it went through
Data(src) == [src |-> src, tf |-> <<>>]
Apply(data, stage) == [data EXCEPT !.tf = Append(@, stage)]

\* dict.get(key) of the hyperparameters, None when the key is absent
HPGet(hp, k) == IF StrKey(k) \in DOMAIN hp THEN Some(hp[StrKey(k)]) ELSE None

\* TimeSeriesModelBase.get_hyperparameters, with the base class's empty defaults
get_hyperparameters(obj) == Union(EmptyDict, obj._hyperparameters)

\* the factories of the transform pipeline: no transform for a missing key
get_target_scaler(name) == IF IsNone(name) THEN NoTransform ELSE Transform(Val(name).v)
get_covariate_scaler(name) == IF IsNone(name) THEN NoTransform ELSE Transform(Val(name).v)
get_covariate_regressor(name) == IF IsNone(name) THEN NoTransform ELSE Transform(Val(name).v)

\* AbstractTimeSeriesModel._initialize_transforms_and_regressor
_initialize_transforms_and_regressor(obj) ==
    [obj EXCEPT
        !.target_scaler = get_target_scaler(HPGet(get_hyperparameters(obj), "target_scaler")),
        !.covariate_scaler = get_covariate_scaler(HPGet(get_hyperparameters(obj), "covariate_scaler")),
        !.covariate_regressor = get_covariate_regressor(HPGet(get_hyperparameters(obj), "covariate_regressor"))]

\* the resources the resource manager reports
_get_system_resources == [k \in {"num_cpus", "num_gpus"} |-> IF k = "num_cpus" THEN 4 ELSE 0]

----------------------------------------------------------------------------
(* Time budget *)

default_max_time_limit_ratio == 9
_covariate_regressor_fit_time_fraction == 5

\* t * r for a time t in tenths of a second and a ratio r in tenths; exact
\* for the whole-second times offered
Times(t, r) == (t * r) \div 10

\* _preprocess_time_limit applying the cap before the ratio
_preprocess_time_limit_CapFirst(obj, time_limit) ==
    LET max_time_limit_ratio ==
            IF "max_time_limit_ratio" \in DOMAIN obj._extra_ag_args
            THEN obj._extra_ag_args["max_time_limit_ratio"]
            ELSE default_max_time_limit_ratio
        capped == IF "max_time_limit" \in DOMAIN obj._extra_ag_args
                  THEN Min(time_limit, obj._extra_ag_args["max_time_limit"])
                  ELSE time_limit
    IN  Times(capped, max_time_limit_ratio)

\* AbstractTimeSeriesModel._preprocess_time_limit
_preprocess_time_limit(obj, time_limit) ==
    LET max_time_limit_ratio ==
            IF "max_time_limit_ratio" \in DOMAIN obj._extra_ag_args
            THEN obj._extra_ag_args["max_time_limit_ratio"]
            ELSE default_max_time_limit_ratio
        max_time_limit ==
            IF "max_time_limit" \in DOMAIN obj._extra_ag_args
            THEN Some(obj._extra_ag_args["max_time_limit"])
            ELSE None
        scaled == Times(time_limit, max_time_limit_ratio)
    IN  IF ~ IsNone(max_time_limit) THEN Min(scaled, Val(max_time_limit)) ELSE scaled

\* TimedOut letting a budget of exactly 0 through
TimedOut_Strict(time_limit) == time_limit < 0

\* fit, lines 509-513: TRUE when the budget left makes fit raise TimeLimitExceeded
TimedOut(time_limit) == time_limit <= 0

\* AbstractTimeSeriesModel._check_fit_params: TRUE when it raises ValueError
_check_fit_params(obj) ==
    \E k \in DOMAIN get_hyperparameters(obj) : get_hyperparameters(obj)[k].ty = "Space"

----------------------------------------------------------------------------
(* fit *)

\* what the _fit hook of the subclass does: returns, raises, or first runs
\* self._check_fit_params() as the concrete models do
FitHooks == {"return", "raise", "check"}

\* the (time_limit, elapsed) pairs offered: no limit, or 10 s and 100 s with
\* 0 s or 10 s spent before the budget is computed
FitTimes == {[time_limit |-> None, elapsed |-> 0]} \cup
            {[time_limit |-> Some(t), elapsed |-> e] : t \in {100, 1000}, e \in {0, 100}}

FitKwargs == {EmptyDict, [k \in {"num_cpus"} |-> 1]}

\* FitTrain fit-transforming the covariate scaler before the target scaler
FitTrain_CovariateScalerFirst(obj) ==
    LET has_ts == obj.target_scaler.st = "obj"
        has_cs == obj.covariate_scaler.st = "obj"
        has_reg == obj.covariate_regressor.st = "obj"
        use_train == obj.cls.can_use_train_data
        train1 == IF has_cs THEN Apply(Data("train"), "covariate_scaler.fit_transform") ELSE Data("train")
        train2 == IF has_ts THEN Apply(train1, "target_scaler.fit_transform") ELSE train1
        train3 == IF use_train /\ has_reg THEN Apply(train2, "covariate_regressor.transform") ELSE train2
        train4 == IF use_train THEN Apply(train3, "preprocess") ELSE train3
    IN  [obj |-> [obj EXCEPT !.target_scaler.fit_on = IF has_ts THEN "train" ELSE @,
                             !.covariate_scaler.fit_on = IF has_cs THEN "train" ELSE @,
                             !.covariate_regressor.fit_on = IF has_reg THEN "train" ELSE @],
         data |-> train4,
         trace |-> (IF has_cs THEN <<"covariate_scaler.fit_transform(train)">> ELSE <<>>)
                   \o (IF has_ts THEN <<"target_scaler.fit_transform(train)">> ELSE <<>>)
                   \o (IF has_reg THEN <<"covariate_regressor.fit(train)">> ELSE <<>>)
                   \o (IF use_train /\ has_reg THEN <<"covariate_regressor.transform(train)">> ELSE <<>>)
                   \o (IF use_train THEN <<"preprocess(train)">> ELSE <<>>)]

\* fit, lines 476-495, on the training data, for an object whose transforms
\* were just instantiated: the object with its transforms fitted, the training
\* data as it leaves the steps, and the steps run in order
FitTrain(obj) ==
    LET has_ts == obj.target_scaler.st = "obj"
        has_cs == obj.covariate_scaler.st = "obj"
        has_reg == obj.covariate_regressor.st = "obj"
        use_train == obj.cls.can_use_train_data
        \* lines 476-480
        train1 == IF has_ts THEN Apply(Data("train"), "target_scaler.fit_transform") ELSE Data("train")
        train2 == IF has_cs THEN Apply(train1, "covariate_scaler.fit_transform") ELSE train1
        \* lines 492-495
        train3 == IF use_train /\ has_reg THEN Apply(train2, "covariate_regressor.transform") ELSE train2
        train4 == IF use_train THEN Apply(train3, "preprocess") ELSE train3
    IN  [obj |-> [obj EXCEPT !.target_scaler.fit_on = IF has_ts THEN "train" ELSE @,
                             !.covariate_scaler.fit_on = IF has_cs THEN "train" ELSE @,
                             !.covariate_regressor.fit_on = IF has_reg THEN "train" ELSE @],
         data |-> train4,
         trace |-> (IF has_ts THEN <<"target_scaler.fit_transform(train)">> ELSE <<>>)
                   \o (IF has_cs THEN <<"covariate_scaler.fit_transform(train)">> ELSE <<>>)
                   \o (IF has_reg THEN <<"covariate_regressor.fit(train)">> ELSE <<>>)
                   \o (IF use_train /\ has_reg THEN <<"covariate_regressor.transform(train)">> ELSE <<>>)
                   \o (IF use_train THEN <<"preprocess(train)">> ELSE <<>>)]

\* FitVal fit-transforming the scalers on the validation data
FitVal_Refits(obj, val_data) ==
    LET has_ts == obj.target_scaler.st = "obj"
        has_cs == obj.covariate_scaler.st = "obj"
        has_reg == obj.covariate_regressor.st = "obj"
        use_val == obj.cls.can_use_val_data /\ ~ IsNone(val_data)
        val0 == IF IsNone(val_data) THEN Data("") ELSE Data(Val(val_data))
        val1 == IF has_ts THEN Apply(val0, "target_scaler.fit_transform") ELSE val0
        val2 == IF has_cs THEN Apply(val1, "covariate_scaler.fit_transform") ELSE val1
        val3 == IF has_reg THEN Apply(val2, "covariate_regressor.transform") ELSE val2
    IN  [obj |-> IF use_val
                 THEN [obj EXCEPT !.target_scaler.fit_on = IF has_ts THEN Val(val_data) ELSE @,
                                  !.covariate_scaler.fit_on = IF has_cs THEN Val(val_data) ELSE @]
                 ELSE obj,
         data |-> IF use_val THEN Some(Apply(val3, "preprocess"))
                  ELSE IF IsNone(val_data) THEN None ELSE Some(val0),
         trace |-> (IF use_val /\ has_ts THEN <<"target_scaler.fit_transform(val)">> ELSE <<>>)
                   \o (IF use_val /\ has_cs THEN <<"covariate_scaler.fit_transform(val)">> ELSE <<>>)
                   \o (IF use_val /\ has_reg THEN <<"covariate_regressor.transform(val)">> ELSE <<>>)
                   \o (IF use_val THEN <<"preprocess(val)">> ELSE <<>>)]

\* fit, lines 497-504, on the validation data, for an object whose transforms
\* were fitted on the training data: the object, the validation data handed
\* on, and the steps run in order
FitVal(obj, val_data) ==
    LET has_ts == obj.target_scaler.st = "obj"
        has_cs == obj.covariate_scaler.st = "obj"
        has_reg == obj.covariate_regressor.st = "obj"
        use_val == obj.cls.can_use_val_data /\ ~ IsNone(val_data)
        val0 == IF IsNone(val_data) THEN Data("") ELSE Data(Val(val_data))
        val1 == IF has_ts THEN Apply(val0, "target_scaler.transform") ELSE val0
        val2 == IF has_cs THEN Apply(val1, "covariate_scaler.transform") ELSE val1
        val3 == IF has_reg THEN Apply(val2, "covariate_regressor.transform") ELSE val2
    IN  [obj |-> obj,
         data |-> IF use_val THEN Some(Apply(val3, "preprocess"))
                  ELSE IF IsNone(val_data) THEN None ELSE Some(val0),
         trace |-> (IF use_val /\ has_ts THEN <<"target_scaler.transform(val)">> ELSE <<>>)
                   \o (IF use_val /\ has_cs THEN <<"covariate_scaler.transform(val)">> ELSE <<>>)
                   \o (IF use_val /\ has_reg THEN <<"covariate_regressor.transform(val)">> ELSE <<>>)
                   \o (IF use_val THEN <<"preprocess(val)">> ELSE <<>>)]

\* FitBudget counting a missing time limit as no time at all
FitBudget_NoneIsZero(obj, time_limit, elapsed) ==
    Some(_preprocess_time_limit(obj, (IF IsNone(time_limit) THEN 0 ELSE Val(time_limit)) - elapsed))

\* fit, lines 506-508: the time limit handed to _fit, None when fit got none
FitBudget(obj, time_limit, elapsed) ==
    IF ~ IsNone(time_limit)
    THEN Some(_preprocess_time_limit(obj, Val(time_limit) - elapsed))
    ELSE None

\* AbstractTimeSeriesModel.fit(train_data, val_data, time_limit, **kwargs),
\* elapsed being time.monotonic() - start_time when the budget is computed:
\* the object after the call and the record of the call
fit(obj, val_data, time_limit, elapsed, kwargs, hook) ==
    LET o1 == _initialize_transforms_and_regressor(obj)
        has_reg == o1.covariate_regressor.st = "obj"
        \* lines 476-495
        train == FitTrain(o1)
        \* lines 482-490
        covariate_regressor_time_limit ==
            IF ~ IsNone(time_limit)
            THEN Some(Times(Val(time_limit), _covariate_regressor_fit_time_fraction))
            ELSE None
        \* lines 497-504
        val == FitVal(train.obj, val_data)
        o2 == val.obj
        train4 == train.data
        val4 == val.data
        \* lines 506-513
        budget == FitBudget(o2, time_limit, elapsed)
        timed_out == ~ IsNone(budget) /\ TimedOut(Val(budget))
        \* lines 515-521
        checked == ~ timed_out /\ hook = "check"
        exc == IF timed_out THEN "TimeLimitExceeded"
               ELSE IF hook = "raise" THEN "HookError"
               ELSE IF checked /\ _check_fit_params(o2) THEN "ValueError"
               ELSE ""
        trace ==
            <<"_initialize_transforms_and_regressor">>
            \o train.trace
            \o val.trace
            \o (IF ~ IsNone(time_limit) THEN <<"_preprocess_time_limit">> ELSE <<>>)
            \o (IF ~ timed_out THEN <<"_fit">> ELSE <<>>)
    IN  [obj |-> IF exc = "" THEN [o2 EXCEPT !.params = Some("trained")] ELSE o2,
         log |-> [op |-> "fit",
                  exc |-> exc,
                  time_limit |-> time_limit,
                  elapsed |-> elapsed,
                  val_data |-> val_data,
                  kwargs |-> kwargs,
                  trace |-> trace,
                  covariate_regressor_time_limit |->
                      IF has_reg THEN Some(covariate_regressor_time_limit) ELSE None,
                  hook_calls |-> IF timed_out THEN 0 ELSE 1,
                  checked |-> checked,
                  hook_args |->
                      IF timed_out THEN None
                      ELSE Some([train_data |-> train4,
                                 val_data |-> val4,
                                 time_limit |-> budget,
                                 resources |-> Union(_get_system_resources, kwargs)])]]

\* model.fit(train_data, val_data, time_limit, **kwargs)
Fit(o, val_data, time_limit, elapsed, kwargs, hook) ==
    /\ AllIdle
    /\ o \in DOMAIN heap
    /\ LET r == fit(heap[o], val_data, time_limit, elapsed, kwargs, hook)
       IN  /\ heap' = [heap EXCEPT ![o] = r.obj]
           /\ ret' = r.log
    /\ UNCHANGED <<disk, frames, caller>>

----------------------------------------------------------------------------
(* Prediction tables *)

\* a table: its columns in order, each with the label and what it holds, and
\* the inverse transforms applied to the whole table
Table(cols) == [cols |-> cols, tf |-> <<>>]
Col(label, val) == [col |-> label, val |-> val]
Labels(table) == [i \in 1..Len(table.cols) |-> table.cols[i].col]
HasCol(table, label) == \E i \in 1..Len(table.cols) : table.cols[i].col = label
\* table[label] for a label held by at least one column: the first such column
ColVal(table, label) ==
    table.cols[CHOOSE i \in 1..Len(table.cols) :
                  /\ table.cols[i].col = label
                  /\ \A j \in 1..(i - 1) : table.cols[j].col # label].val
CountCol(table, label) == Cardinality({i \in 1..Len(table.cols) : table.cols[i].col = label})

\* the column labels a _predict hook may emit, and the tables it may return:
\* any set of them, in this order or reversed, each column holding the hook's
\* own forecast for that label
HookLabels == <<"mean", "0.1", "0.5", "x">>
Reverse(s) == [i \in 1..Len(s) |-> s[Len(s) + 1 - i]]
SubSeqOf(s, I) == LET RECURSIVE Pick(_)
                      Pick(k) == IF k > Len(s) THEN <<>>
                                 ELSE (IF k \in I THEN <<s[k]>> ELSE <<>>) \o Pick(k + 1)
                  IN Pick(1)
HookColumns == {SubSeqOf(HookLabels, I) : I \in SUBSET (1..Len(HookLabels))}
                  \cup {Reverse(SubSeqOf(HookLabels, I)) : I \in SUBSET (1..Len(HookLabels))}
HookTable(labels) == Table([i \in 1..Len(labels) |-> Col(labels[i], labels[i])])

\* DataFrame.reindex(columns=column_order) of a table with unique labels
Reindex(table, column_order) ==
    [table EXCEPT !.cols = [i \in 1..Len(column_order) |->
        IF HasCol(table, column_order[i])
        THEN Col(column_order[i], ColVal(table, column_order[i]))
        ELSE Col(column_order[i], "NaN")]]

\* DataFrame.drop(label, axis=1): drops every column with that label
RECURSIVE DropCols(_, _)
DropCols(cols, label) ==
    IF cols = <<>> THEN <<>>
    ELSE (IF Head(cols).col = label THEN <<>> ELSE <<Head(cols)>>) \o DropCols(Tail(cols), label)
Drop(table, label) == [table EXCEPT !.cols = DropCols(@, label)]

\* table[label] = value
SetCol(table, label, val) ==
    [table EXCEPT !.cols = [i \in 1..Len(@) |-> IF @[i].col = label THEN Col(label, val) ELSE @[i]]]

\* predict, lines 611-613: the canonical columns of the object and the reindexing
ColumnOrder(obj) == <<"mean">> \o [i \in 1..Len(obj.quantile_levels) |-> QStr(obj.quantile_levels[i])]
Canonical(obj, predictions) ==
    IF Labels(predictions) # ColumnOrder(obj)
    THEN Reindex(predictions, ColumnOrder(obj))
    ELSE predictions

\* MedianStep without the drop of a synthetic median
MedianStep_KeepsMedian(obj, predictions) ==
    IF ~ HasCol(predictions, "0.5") THEN [exc |-> "", predictions |-> predictions]
    ELSE IF obj.eval_metric.optimized_by_median /\ CountCol(predictions, "0.5") > 1
    THEN [exc |-> "ValueError", predictions |-> predictions]
    ELSE [exc |-> "",
          predictions |-> IF obj.eval_metric.optimized_by_median
                          THEN SetCol(predictions, "mean", ColVal(predictions, "0.5"))
                          ELSE predictions]

\* MedianStep dropping the synthetic median before the mean is overwritten
MedianStep_DropsFirst(obj, predictions) ==
    IF ~ HasCol(predictions, "0.5") THEN [exc |-> "", predictions |-> predictions]
    ELSE LET p1 == IF obj.must_drop_median THEN Drop(predictions, "0.5") ELSE predictions
         IN  IF obj.eval_metric.optimized_by_median /\ CountCol(p1, "0.5") > 1
             THEN [exc |-> "ValueError", predictions |-> predictions]
             ELSE [exc |-> "",
                   predictions |-> IF obj.eval_metric.optimized_by_median /\ HasCol(p1, "0.5")
                                   THEN SetCol(p1, "mean", ColVal(p1, "0.5"))
                                   ELSE p1]

\* predict, lines 616-620: the exception raised ("" for none) and the table;
\* pandas refuses to assign the several columns labelled "0.5" to the one column "mean"
MedianStep(obj, predictions) ==
    IF ~ HasCol(predictions, "0.5") THEN [exc |-> "", predictions |-> predictions]
    ELSE IF obj.eval_metric.optimized_by_median /\ CountCol(predictions, "0.5") > 1
    THEN [exc |-> "ValueError", predictions |-> predictions]
    ELSE LET p1 == IF obj.eval_metric.optimized_by_median
                   THEN SetCol(predictions, "mean", ColVal(predictions, "0.5"))
                   ELSE predictions
         IN [exc |-> "",
             predictions |-> IF obj.must_drop_median THEN Drop(p1, "0.5") ELSE p1]

----------------------------------------------------------------------------
(* predict and score_and_cache_oof *)

\* PredictForward leaving the regressor attached while _predict runs
PredictForward_KeepsRegressor(obj) ==
    LET has_ts == obj.target_scaler.st = "obj"
        has_cs == obj.covariate_scaler.st = "obj"
        has_reg == obj.covariate_regressor.st = "obj"
        o1 == [obj EXCEPT !.target_scaler.fit_on = IF has_ts THEN "predict" ELSE @,
                          !.covariate_scaler.fit_on = IF has_cs THEN "predict" ELSE @,
                          !.covariate_regressor.fit_on = IF has_reg THEN "predict" ELSE @]
        d1 == IF has_ts THEN Apply(Data("data"), "target_scaler.fit_transform") ELSE Data("data")
        d2 == IF has_cs THEN Apply(d1, "covariate_scaler.fit_transform") ELSE d1
        d3 == IF has_reg THEN Apply(d2, "covariate_regressor.fit_transform") ELSE d2
    IN  [obj |-> o1,
         covariate_regressor |-> o1.covariate_regressor,
         data |-> Apply(d3, "preprocess"),
         trace |-> (IF has_ts THEN <<"target_scaler.fit_transform">> ELSE <<>>)
                   \o (IF has_cs THEN <<"covariate_scaler.fit_transform">> ELSE <<>>)
                   \o (IF has_reg THEN <<"covariate_regressor.fit_transform">> ELSE <<>>)
                   \o <<"preprocess", "_predict">>]

\* predict, lines 594-607, for an object whose transforms are assigned: the
\* object when _predict is entered, the regressor kept in the local variable,
\* the data handed to the hook and the stages run
PredictForward(obj) ==
    LET has_ts == obj.target_scaler.st = "obj"
        has_cs == obj.covariate_scaler.st = "obj"
        has_reg == obj.covariate_regressor.st = "obj"
        o1 == [obj EXCEPT !.target_scaler.fit_on = IF has_ts THEN "predict" ELSE @,
                          !.covariate_scaler.fit_on = IF has_cs THEN "predict" ELSE @,
                          !.covariate_regressor.fit_on = IF has_reg THEN "predict" ELSE @]
        d1 == IF has_ts THEN Apply(Data("data"), "target_scaler.fit_transform") ELSE Data("data")
        d2 == IF has_cs THEN Apply(d1, "covariate_scaler.fit_transform") ELSE d1
        d3 == IF has_reg THEN Apply(d2, "covariate_regressor.fit_transform") ELSE d2
    IN  [obj |-> [o1 EXCEPT !.covariate_regressor = NoTransform],
         covariate_regressor |-> o1.covariate_regressor,
         data |-> Apply(d3, "preprocess"),
         trace |-> (IF has_ts THEN <<"target_scaler.fit_transform">> ELSE <<>>)
                   \o (IF has_cs THEN <<"covariate_scaler.fit_transform">> ELSE <<>>)
                   \o (IF has_reg THEN <<"covariate_regressor.fit_transform">> ELSE <<>>)
                   \o <<"preprocess", "_predict">>]

\* PredictBackward inverting the target scaler before the covariate regressor
PredictBackward_TargetScalerFirst(obj, covariate_regressor, raw) ==
    LET o1 == [obj EXCEPT !.covariate_regressor = covariate_regressor]
        m == MedianStep(o1, Canonical(o1, raw))
        has_reg == o1.covariate_regressor.st = "obj"
        has_ts == o1.target_scaler.st = "obj"
        p1 == IF has_ts
              THEN [m.predictions EXCEPT !.tf = Append(@, "target_scaler.inverse_transform")]
              ELSE m.predictions
        p2 == IF has_reg
              THEN [p1 EXCEPT !.tf = Append(@, "covariate_regressor.inverse_transform")]
              ELSE p1
    IN  [obj |-> o1,
         exc |-> m.exc,
         predictions |-> IF m.exc = "" THEN Some(p2) ELSE None,
         trace |-> <<"reconcile">>
                   \o (IF m.exc = "" /\ has_ts THEN <<"target_scaler.inverse_transform">> ELSE <<>>)
                   \o (IF m.exc = "" /\ has_reg THEN <<"covariate_regressor.inverse_transform">> ELSE <<>>)]

\* predict, lines 609-636, once _predict has returned the table raw: the
\* object, the exception raised ("" for none), the table returned, the stages
PredictBackward(obj, covariate_regressor, raw) ==
    LET o1 == [obj EXCEPT !.covariate_regressor = covariate_regressor]
        m == MedianStep(o1, Canonical(o1, raw))
        has_reg == o1.covariate_regressor.st = "obj"
        has_ts == o1.target_scaler.st = "obj"
        p1 == IF has_reg
              THEN [m.predictions EXCEPT !.tf = Append(@, "covariate_regressor.inverse_transform")]
              ELSE m.predictions
        p2 == IF has_ts
              THEN [p1 EXCEPT !.tf = Append(@, "target_scaler.inverse_transform")]
              ELSE p1
    IN  [obj |-> o1,
         exc |-> m.exc,
         predictions |-> IF m.exc = "" THEN Some(p2) ELSE None,
         trace |-> <<"reconcile">>
                   \o (IF m.exc = "" /\ has_reg THEN <<"covariate_regressor.inverse_transform">> ELSE <<>>)
                   \o (IF m.exc = "" /\ has_ts THEN <<"target_scaler.inverse_transform">> ELSE <<>>)]

\* the flag pairs (store_val_score, store_predict_time) of score_and_cache_oof
NoFlags == [store_val_score |-> FALSE, store_predict_time |-> FALSE]
Flags == [store_val_score : BOOLEAN, store_predict_time : BOOLEAN]

\* a caller enters op, which is predict or score_and_cache_oof (which calls
\* predict first), and runs it up to the call of the _predict hook
PredictEnter(c, o, op, flags) ==
    /\ frames[c] = Idle
    /\ o \in DOMAIN heap
    /\ IF heap[o].target_scaler.st = "unset"
       THEN /\ ret' = [op |-> op, exc |-> "AttributeError", predictions |-> None,
                       raw |-> <<>>, trace |-> <<>>]
            /\ UNCHANGED <<heap, frames>>
       ELSE LET f == PredictForward(heap[o])
            IN  /\ heap' = [heap EXCEPT ![o] = f.obj]
                /\ frames' = [frames EXCEPT ![c] =
                       [pc |-> "_predict", op |-> op, o |-> o, flags |-> flags,
                        covariate_regressor |-> f.covariate_regressor,
                        data |-> f.data, trace |-> f.trace]]
                /\ UNCHANGED ret
    /\ UNCHANGED <<disk, caller>>

\* the _predict hook raises: the exception leaves predict and the caller's op
PredictRaise(c) ==
    /\ frames[c].pc = "_predict"
    /\ frames' = [frames EXCEPT ![c] = Idle]
    /\ ret' = [op |-> frames[c].op, exc |-> "HookError", predictions |-> None,
               raw |-> <<>>, trace |-> frames[c].trace]
    /\ UNCHANGED <<heap, disk, caller>>

\* score_and_cache_oof storing the validation score whatever the flag says
CacheOOF_AlwaysScores(obj, flags, oof_predictions, predict_time, val_score) ==
    [obj EXCEPT !._oof_predictions = Some(<<oof_predictions>>),
                !.predict_time = IF flags.store_predict_time THEN Some(predict_time) ELSE @,
                !.val_score = Some(val_score)]

\* score_and_cache_oof, lines 731-735, after its predict call returned
CacheOOF(obj, flags, oof_predictions, predict_time, val_score) ==
    [obj EXCEPT !._oof_predictions = Some(<<oof_predictions>>),
                !.predict_time = IF flags.store_predict_time THEN Some(predict_time) ELSE @,
                !.val_score = IF flags.store_val_score THEN Some(val_score) ELSE @]

\* the _predict hook returns a table with the columns labels; predict runs to
\* its end, and score_and_cache_oof goes on with the table predict returned;
\* predict_time is the time measured, val_score what the metric computes
PredictReturn(c, labels, predict_time, val_score) ==
    /\ frames[c].pc = "_predict"
    /\ LET fr == frames[c]
           b == PredictBackward(heap[fr.o], fr.covariate_regressor, HookTable(labels))
       IN  /\ heap' = [heap EXCEPT ![fr.o] =
                  IF fr.op = "score_and_cache_oof" /\ b.exc = ""
                  THEN CacheOOF(b.obj, fr.flags, Val(b.predictions), predict_time, val_score)
                  ELSE b.obj]
           /\ ret' = [op |-> fr.op, exc |-> b.exc, predictions |-> b.predictions,
                      raw |-> labels, trace |-> fr.trace \o b.trace]
    /\ frames' = [frames EXCEPT ![c] = Idle]
    /\ UNCHANGED <<disk, caller>>

----------------------------------------------------------------------------
(* save and load *)

ModelFile(path) == PathJoin(path, model_file_name)
OOFFile(path) == PathJoin(PathJoin(path, UTILS), _oof_filename)

\* save pickling the model without clearing its OOF predictions
save_KeepsOOF(obj, files, path_arg, outcome) ==
    LET path == IF IsNone(path_arg) THEN obj.path ELSE Val(path_arg)
        has_oof == ~ IsNone(obj._oof_predictions)
        oof_written == has_oof /\ outcome # "oof_fails"
        files1 == IF oof_written THEN Put(files, OOFFile(path), Val(obj._oof_predictions)) ELSE files
    IN  IF has_oof /\ outcome = "oof_fails"
        THEN [obj |-> obj, disk |-> files, exc |-> "IOError", path |-> path, writes |-> <<>>]
        ELSE IF outcome = "model_fails"
        THEN [obj |-> obj, disk |-> files1, exc |-> "IOError", path |-> path,
              writes |-> IF oof_written THEN <<OOFFile(path)>> ELSE <<>>]
        ELSE [obj |-> obj, disk |-> Put(files1, ModelFile(path), obj), exc |-> "", path |-> path,
              writes |-> (IF oof_written THEN <<OOFFile(path)>> ELSE <<>>) \o <<ModelFile(path)>>]

\* how the two save_pkl.save calls of save end: both succeed, the write of the
\* OOF artifact raises, or the write of the main artifact raises
SaveOutcomes == {"ok", "oof_fails", "model_fails"}

\* TimeSeriesModelBase.save(path): the object and the disk after the call, the
\* exception raised ("" for none), the directory and the files written in order
save(obj, files, path_arg, outcome) ==
    LET path == IF IsNone(path_arg) THEN obj.path ELSE Val(path_arg)
        has_oof == ~ IsNone(obj._oof_predictions)
        oof_written == has_oof /\ outcome # "oof_fails"
        files1 == IF oof_written THEN Put(files, OOFFile(path), Val(obj._oof_predictions)) ELSE files
        oof_predictions == obj._oof_predictions
        cleared == [obj EXCEPT !._oof_predictions = None]
        files2 == Put(files1, ModelFile(path), cleared)
    IN  IF has_oof /\ outcome = "oof_fails"
        THEN [obj |-> obj, disk |-> files, exc |-> "IOError", path |-> path, writes |-> <<>>]
        ELSE IF outcome = "model_fails"
        THEN [obj |-> cleared, disk |-> files1, exc |-> "IOError", path |-> path,
              writes |-> IF oof_written THEN <<OOFFile(path)>> ELSE <<>>]
        ELSE [obj |-> [cleared EXCEPT !._oof_predictions = oof_predictions],
              disk |-> files2, exc |-> "", path |-> path,
              writes |-> (IF oof_written THEN <<OOFFile(path)>> ELSE <<>>) \o <<ModelFile(path)>>]

\* model.save(path)
Save(o, path_arg, outcome) ==
    /\ AllIdle
    /\ o \in DOMAIN heap
    /\ outcome = "oof_fails" => ~ IsNone(heap[o]._oof_predictions)
    /\ LET r == save(heap[o], disk, path_arg, outcome)
       IN  /\ heap' = [heap EXCEPT ![o] = r.obj]
           /\ disk' = r.disk
           /\ ret' = [op |-> "save", exc |-> r.exc, path |-> r.path, writes |-> r.writes,
                      oof_before |-> heap[o]._oof_predictions]
    /\ UNCHANGED <<frames, caller>>

\* set_contexts leaving path_root as it is
set_contexts_KeepsRoot(obj, path_context) ==
    [obj EXCEPT !.path = path_context]

\* TimeSeriesModelBase.set_contexts
set_contexts(obj, path_context) ==
    [obj EXCEPT !.path = path_context,
                !.path_root = RSplitHead(path_context, obj.name)]

\* load never reading the OOF artifact
load_IgnoresOOF(files, path, reset_paths, load_oof) ==
    IF ModelFile(path) \notin DOMAIN files
    THEN [exc |-> "FileNotFoundError", model |-> None]
    ELSE [exc |-> "",
          model |-> Some(IF reset_paths THEN set_contexts(files[ModelFile(path)], path)
                         ELSE files[ModelFile(path)])]

\* TimeSeriesModelBase.load(path, reset_paths, load_oof) and load_oof_predictions:
\* the exception raised ("" for none) and the model returned
load(files, path, reset_paths, load_oof) ==
    IF ModelFile(path) \notin DOMAIN files
    THEN [exc |-> "FileNotFoundError", model |-> None]
    ELSE LET m0 == files[ModelFile(path)]
             m1 == IF reset_paths THEN set_contexts(m0, path) ELSE m0
         IN  IF load_oof /\ IsNone(m1._oof_predictions)
             THEN IF OOFFile(path) \notin DOMAIN files
                  THEN [exc |-> "FileNotFoundError", model |-> None]
                  ELSE [exc |-> "",
                        model |-> Some([m1 EXCEPT !._oof_predictions = Some(files[OOFFile(path)])])]
             ELSE [exc |-> "", model |-> Some(m1)]

\* model = cls.load(path, reset_paths, load_oof)
Load(path, reset_paths, load_oof) ==
    /\ AllIdle
    /\ LET r == load(disk, path, reset_paths, load_oof)
       IN  ret' = [op |-> "load", exc |-> r.exc, path |-> path, reset_paths |-> reset_paths,
                   load_oof |-> load_oof, model |-> r.model]
    /\ UNCHANGED <<heap, disk, frames, caller>>

----------------------------------------------------------------------------
(* rename and the refit-full conversions *)

\* rename appending the new name to the path
rename_Appends(obj, name) ==
    [obj EXCEPT !.path = PathJoin(obj.path, name),
                !.name = name]

\* TimeSeriesModelBase.rename
rename(obj, name) ==
    [obj EXCEPT !.path = IF Len(obj.name) > 0
                         THEN PathJoin(DirName(obj.path), name)
                         ELSE PathJoin(obj.path, name),
                !.name = name]

\* convert_to_refit_full_via_copy returning the copy with the validation score
\* and the predict time of the original
convert_to_refit_full_via_copy_KeepsStats(obj, files, outcome) ==
    LET previous_name == obj.name
        o1 == rename(obj, obj.name \o REFIT_FULL_SUFFIX)
        refit_model_path == o1.path
        s == save(o1, files, Some(o1.path), outcome)
        o2 == rename(s.obj, previous_name)
        l == load(s.disk, refit_model_path, TRUE, FALSE)
    IN  IF s.exc # ""
        THEN [obj |-> s.obj, disk |-> s.disk, exc |-> s.exc, model |-> None]
        ELSE IF l.exc # ""
        THEN [obj |-> o2, disk |-> s.disk, exc |-> l.exc, model |-> None]
        ELSE [obj |-> o2, disk |-> s.disk, exc |-> "", model |-> l.model]

\* TimeSeriesModelBase.convert_to_refit_full_via_copy: the original and the
\* disk after the call, the exception raised ("" for none), the model returned;
\* outcome is how the save_pkl.save calls of its save end
convert_to_refit_full_via_copy(obj, files, outcome) ==
    LET previous_name == obj.name
        o1 == rename(obj, obj.name \o REFIT_FULL_SUFFIX)
        refit_model_path == o1.path
        s == save(o1, files, Some(o1.path), outcome)
        o2 == rename(s.obj, previous_name)
        l == load(s.disk, refit_model_path, TRUE, FALSE)
    IN  IF s.exc # ""
        THEN [obj |-> s.obj, disk |-> s.disk, exc |-> s.exc, model |-> None]
        ELSE IF l.exc # ""
        THEN [obj |-> o2, disk |-> s.disk, exc |-> l.exc, model |-> None]
        ELSE [obj |-> o2, disk |-> s.disk, exc |-> "",
              model |-> Some([Val(l.model) EXCEPT !.val_score = None, !.predict_time = None])]

\* TimeSeriesModelBase.get_params: the constructor arguments; alias tells for
\* each container whether it is the model's own object (quantile_levels is
\* passed as it is, hyperparameters is a copy)
get_params(obj) ==
    LET hyperparameters == obj._hyperparameters
    IN  [path |-> obj.path_root,
         name |-> obj.name,
         eval_metric |-> obj.eval_metric,
         hyperparameters |-> IF DOMAIN obj._extra_ag_args # {}
                             THEN Put(hyperparameters, AG_ARGS_FIT, PyDict(obj._extra_ag_args))
                             ELSE hyperparameters,
         quantile_levels |-> obj.quantile_levels,
         alias |-> [hyperparameters |-> FALSE, quantile_levels |-> TRUE]]

\* a copy that keeps the containers of its argument
deepcopy_Shallow(params) == params

\* copy.deepcopy(params): equal values, no container of the argument
deepcopy(params) ==
    [params EXCEPT !.alias = [hyperparameters |-> FALSE, quantile_levels |-> FALSE]]

\* convert_to_refit_full_template leaving the median in quantile_levels
convert_to_refit_full_template_KeepsMedian(obj) ==
    LET params == deepcopy(get_params(obj))
        quantile_levels == params.quantile_levels
        hyperparameters == IF AG_ARGS_FIT \notin DOMAIN params.hyperparameters
                           THEN Put(params.hyperparameters, AG_ARGS_FIT, PyDict(EmptyDict))
                           ELSE params.hyperparameters
        t == __init__(obj.cls, params.path, params.name \o REFIT_FULL_SUFFIX,
                      Some(hyperparameters), quantile_levels, params.eval_metric)
    IN  [obj |-> [obj EXCEPT !.quantile_levels = IF params.alias.quantile_levels
                                                 THEN quantile_levels ELSE @,
                             !._hyperparameters = IF params.alias.hyperparameters
                                                  THEN hyperparameters ELSE @],
         exc |-> t.exc,
         model |-> IF t.exc = "" THEN Some(t.obj) ELSE None,
         shares |-> {}]

\* TimeSeriesModelBase.convert_to_refit_full_template: the original after the
\* call (params is edited in place, which reaches the original through every
\* container params has in common with it), the exception raised ("" for
\* none), the template, and the containers of the template that are the
\* original's own objects (none: __init__ builds a new list at line 108 and
\* deep-copies the hyperparameters at line 164)
convert_to_refit_full_template(obj) ==
    LET params == deepcopy(get_params(obj))
        quantile_levels == IF obj.must_drop_median
                           THEN ListRemove(params.quantile_levels, Median)
                           ELSE params.quantile_levels
        hyperparameters == IF AG_ARGS_FIT \notin DOMAIN params.hyperparameters
                           THEN Put(params.hyperparameters, AG_ARGS_FIT, PyDict(EmptyDict))
                           ELSE params.hyperparameters
        t == __init__(obj.cls, params.path, params.name \o REFIT_FULL_SUFFIX,
                      Some(hyperparameters), quantile_levels, params.eval_metric)
    IN  IF obj.must_drop_median /\ ~ Contains(params.quantile_levels, Median)
        THEN [obj |-> obj, exc |-> "ValueError", model |-> None, shares |-> {}]
        ELSE [obj |-> [obj EXCEPT !.quantile_levels = IF params.alias.quantile_levels
                                                      THEN quantile_levels ELSE @,
                                  !._hyperparameters = IF params.alias.hyperparameters
                                                       THEN hyperparameters ELSE @],
              exc |-> t.exc,
              model |-> IF t.exc = "" THEN Some(t.obj) ELSE None,
              shares |-> {}]

\* template = model.convert_to_refit_full_template()
Template(o) ==
    /\ AllIdle
    /\ o \in DOMAIN heap
    /\ LET r == convert_to_refit_full_template(heap[o])
       IN  /\ heap' = [heap EXCEPT ![o] = r.obj]
           /\ ret' = [op |-> "convert_to_refit_full_template", exc |-> r.exc,
                      model |-> r.model, before |-> heap[o], shares |-> r.shares]
    /\ UNCHANGED <<disk, frames, caller>>

\* clone = type(model)(**model.get_params())
Reconstruct(o) ==
    /\ AllIdle
    /\ o \in DOMAIN heap
    /\ LET params == get_params(heap[o])
           r == __init__(heap[o].cls, params.path, params.name, Some(params.hyperparameters),
                         params.quantile_levels, params.eval_metric)
       IN  ret' = [op |-> "get_params", exc |-> r.exc, params |-> params,
                   model |-> IF r.exc = "" THEN Some(r.obj) ELSE None]
    /\ UNCHANGED <<heap, disk, frames, caller>>

\* refit_model = model.convert_to_refit_full_via_copy(); before is the original
\* when the call was made, shares the containers of the returned model that
\* are the original's own objects (none: the copy comes out of a pickle)
ViaCopy(o, outcome) ==
    /\ AllIdle
    /\ o \in DOMAIN heap
    /\ outcome = "oof_fails" => ~ IsNone(heap[o]._oof_predictions)
    /\ LET r == convert_to_refit_full_via_copy(heap[o], disk, outcome)
       IN  /\ heap' = [heap EXCEPT ![o] = r.obj]
           /\ disk' = r.disk
           /\ ret' = [op |-> "convert_to_refit_full_via_copy", exc |-> r.exc,
                      model |-> r.model, before |-> heap[o], shares |-> {}]
    /\ UNCHANGED <<frames, caller>>

\* model.rename(name); first is the model before the rename that came right
\* before this one, None when the call before was not a rename
Rename(o, name) ==
    /\ AllIdle
    /\ o \in DOMAIN heap
    /\ heap' = [heap EXCEPT ![o] = rename(@, name)]
    /\ ret' = [op |-> "rename", exc |-> "", name |-> name, before |-> heap[o],
               first |-> IF ret.op = "rename" THEN Some(ret.before) ELSE None]
    /\ UNCHANGED <<disk, frames, caller>>

\* model.set_contexts(path_context), as load with reset_paths calls it on the
\* model it read from path_context
SetContexts(o, path_context) ==
    /\ AllIdle
    /\ o \in DOMAIN heap
    /\ heap' = [heap EXCEPT ![o] = set_contexts(@, path_context)]
    /\ ret' = [op |-> "set_contexts", exc |-> "", path |-> path_context, before |-> heap[o]]
    /\ UNCHANGED <<disk, frames, caller>>

\* the operations that return a converted model, and the containers a model
\* holds
RefitOps == {"convert_to_refit_full_via_copy", "convert_to_refit_full_template"}
Containers == {"quantile_levels", "_hyperparameters", "_extra_ag_args"}

\* the caller of a conversion empties, in place, a container of the model the
\* conversion returned (who = "clone") or of the original (who = "self"): the
\* change shows in the other model when the container is one object in both
Mutate(who, o, field) ==
    /\ AllIdle
    /\ o \in DOMAIN heap
    /\ ret.op \in RefitOps /\ ret.exc = ""
    /\ IF who = "clone"
       THEN /\ DOMAIN Val(ret.model)[field] # {}
            /\ ret' = [ret EXCEPT !.model = Some([Val(@) EXCEPT ![field] = <<>>])]
            /\ heap' = IF field \in ret.shares
                       THEN [heap EXCEPT ![o] = [@ EXCEPT ![field] = <<>>]]
                       ELSE heap
       ELSE /\ DOMAIN heap[o][field] # {}
            /\ heap' = [heap EXCEPT ![o] = [@ EXCEPT ![field] = <<>>]]
            /\ ret' = IF field \in ret.shares
                      THEN [ret EXCEPT !.model = Some([Val(@) EXCEPT ![field] = <<>>])]
                      ELSE ret
    /\ UNCHANGED <<disk, frames, caller>>

----------------------------------------------------------------------------
(* Specifications *)

\* the quantile_levels arguments offered to the constructor
QInputs == SeqUpTo(QUniverse, MaxLen)

\* hyperparameters that configure the whole transform pipeline
AllTransforms ==
    [k \in {StrKey("target_scaler"), StrKey("covariate_scaler"), StrKey("covariate_regressor")} |->
        CHOOSE v \in HPValues(k) : TRUE]

DefaultClass == [can_use_train_data |-> TRUE, can_use_val_data |-> FALSE]
WQL == [name |-> "WQL", optimized_by_median |-> FALSE]

\* construction and fit, over all hyperparameters, budgets and hooks
NextFit ==
    \/ \E cls \in Classes, name \in Names, path \in Roots, hp \in HPInputs \cup {Some(AllTransforms)} :
          Construct(cls, path, name, hp, <<1, 9>>, WQL)
    \/ \E val_data \in {None, Some("val")}, t \in FitTimes, kwargs \in FitKwargs, hook \in FitHooks :
          Fit("self", val_data, t.time_limit, t.elapsed, kwargs, hook)

SpecFit == Init /\ [][NextFit]_vars

\* construction, fit and predict, over all quantile requests, metrics and
\* tables of the _predict hook
NextPredict ==
    \/ \E name \in Names, path \in Roots, hp \in {None, Some(AllTransforms)},
          quantile_levels \in QInputs, eval_metric \in Metrics :
          Construct(DefaultClass, path, name, hp, quantile_levels, eval_metric)
    \/ Fit("self", None, None, 0, EmptyDict, "return")
    \/ PredictEnter("c1", "self", "predict", NoFlags)
    \/ \E labels \in HookColumns : PredictReturn("c1", labels, 0, 0)
    \/ PredictRaise("c1")

SpecPredict == Init /\ [][NextPredict]_vars

\* the tables the _predict hook returns in the persistence life cycle
OOFColumns == {<<"mean", "0.1", "0.5">>, <<"mean">>}

\* the directories save is called on, explicitly or as the model's own path,
\* and those load is called on: the same, and one that holds no model
ModelDirs == {PathJoin(path, name) : path \in Roots, name \in Names}
LoadDirs == ModelDirs \cup {<<"d">>}

\* the life cycle of one model: construction, fit, scoring with the OOF cache,
\* save and load
Next ==
    \/ \E name \in Names, path \in Roots, quantile_levels \in {<<1, 9>>, <<1, 5>>} :
          Construct(DefaultClass, path, name, Some(AllTransforms), quantile_levels, WQL)
    \/ Fit("self", None, None, 0, EmptyDict, "return")
    \/ \E flags \in Flags : PredictEnter("c1", "self", "score_and_cache_oof", flags)
    \/ \E labels \in OOFColumns : PredictReturn("c1", labels, 3, 0 - 2)
    \/ PredictRaise("c1")
    \/ \E path \in {None} \cup {Some(d) : d \in ModelDirs}, outcome \in SaveOutcomes :
          Save("self", path, outcome)
    \/ \E path \in LoadDirs, reset_paths \in BOOLEAN, load_oof \in BOOLEAN :
          Load(path, reset_paths, load_oof)

Spec == Init /\ [][Next]_vars

\* the hyperparameters offered to the models that are converted: none, the
\* transform pipeline, the pipeline with auxiliary arguments, and a plain
\* hyperparameter with an empty auxiliary-argument dict
RefitHPInputs ==
    { None,
      Some(AllTransforms),
      Some(Put(AllTransforms, AG_ARGS_FIT, PyDict([k \in {"max_time_limit"} |-> 500]))),
      Some(Put([k \in {StrKey("epochs")} |-> PyInt("10")], AG_ARGS_FIT, PyDict(EmptyDict))) }

\* the quantile requests of the models that are converted: one without the
\* median, one with it, one with a repeated level
RefitQInputs == { <<1, 9>>, <<5, 1>>, <<1, 1>> }

\* construction, fit, scoring and the refit-full conversions
NextRefit ==
    \/ \E name \in Names, path \in Roots, hp \in RefitHPInputs, quantile_levels \in RefitQInputs :
          Construct(DefaultClass, path, name, hp, quantile_levels, WQL)
    \/ Fit("self", None, None, 0, EmptyDict, "return")
    \/ PredictEnter("c1", "self", "score_and_cache_oof",
                    [store_val_score |-> TRUE, store_predict_time |-> TRUE])
    \/ PredictReturn("c1", <<"mean", "0.1", "0.5">>, 3, 0 - 2)
    \/ PredictRaise("c1")
    \/ \E outcome \in SaveOutcomes :
          \* a conversion that failed in save leaves the model renamed: the
          \* conversions are offered while the model has its constructed name
          Constructed /\ heap["self"].name \in Names /\ ViaCopy("self", outcome)
    \/ Template("self")
    \/ Reconstruct("self")

SpecRefit == Init /\ [][NextRefit]_vars

\* the longest path a model is given in the life cycle of names and paths
MaxPath == 7

\* the names rename is called with: two plain names and one of two components
RenameNames == { <<"a">>, <<"b">>, <<"a", "/", "b">> }

\* the directories a model is relocated to: its own, and one whose last
\* component is not the model's name
ContextDirs == ModelDirs \cup { <<"d", "/", "x">> }

\* the life cycle of the name and the path of one model: construction, rename
\* and relocation
NextRename ==
    \/ \E name \in Names, path \in Roots :
          Construct(DefaultClass, path, name, None, <<1, 9>>, WQL)
    \/ \E name \in RenameNames :
          /\ Constructed
          /\ Len(rename(heap["self"], name).path) <= MaxPath
          /\ Rename("self", name)
    \/ \E path \in ContextDirs : SetContexts("self", path)

SpecRename == Init /\ [][NextRename]_vars

\* the copy-based conversion of models that were renamed or relocated
NextRelocate ==
    \/ \E name \in Names, path \in Roots :
          Construct(DefaultClass, path, name, None, <<1, 9>>, WQL)
    \/ \E name \in {<<"a">>, <<"a", "/", "b">>} :
          /\ Constructed
          /\ Len(rename(heap["self"], name).path) <= MaxPath
          /\ Rename("self", name)
    \/ \E path \in ContextDirs : SetContexts("self", path)
    \/ /\ Constructed
       /\ Len(rename(heap["self"], heap["self"].name \o REFIT_FULL_SUFFIX).path) <= MaxPath
       /\ ViaCopy("self", "ok")

SpecRelocate == Init /\ [][NextRelocate]_vars

\* predict calls of two callers on one fitted model, which may overlap: a
\* caller may enter predict while the other is inside the _predict hook
NextOverlap ==
    \/ \E name \in Names, path \in Roots, hp \in {None, Some(AllTransforms)}, eval_metric \in Metrics :
          Construct(DefaultClass, path, name, hp, <<1, 9>>, eval_metric)
    \/ Fit("self", None, None, 0, EmptyDict, "return")
    \/ \E c \in Callers : PredictEnter(c, "self", "predict", NoFlags)
    \/ \E c \in Callers, labels \in HookColumns : PredictReturn(c, labels, 0, 0)

SpecOverlap == Init /\ [][NextOverlap]_vars

\* the conversions of one model, and callers that edit the containers of the
\* original and of the model returned
NextAlias ==
    \/ \E name \in Names, path \in Roots, quantile_levels \in {<<1, 9>>, <<5, 1>>} :
          Construct(DefaultClass, path, name,
                    Some(Put(AllTransforms, AG_ARGS_FIT, PyDict([k \in {"max_time_limit"} |-> 500]))),
                    quantile_levels, WQL)
    \/ Fit("self", None, None, 0, EmptyDict, "return")
    \/ PredictEnter("c1", "self", "score_and_cache_oof",
                    [store_val_score |-> TRUE, store_predict_time |-> TRUE])
    \/ PredictReturn("c1", <<"mean", "0.1", "0.5">>, 3, 0 - 2)
    \/ Constructed /\ heap["self"].name \in Names /\ ViaCopy("self", "ok")
    \/ Template("self")
    \/ \E who \in {"self", "clone"}, field \in Containers : Mutate(who, "self", field)

SpecAlias == Init /\ [][NextAlias]_vars

----------------------------------------------------------------------------
(* Claims about the quantile columns of predict (SpecPredict) *)

Returned(op) == ret.op = op /\ ret.exc = ""
Strs(qs) == [i \in 1..Len(qs) |-> QStr(qs[i])]

\* C1: for every quantile_levels passed to the constructor (unsorted lists
\* included) and every table of the _predict hook, the table predict returns
\* has the columns "mean" followed by str(q) for q in sorted(quantile_levels),
\* in that order.
C1_PredictColumnsSorted ==
    Returned("predict") =>
        Labels(Val(ret.predictions)) = <<"mean">> \o Strs(Sorted(caller.quantile_levels))

\* C2: when the quantile_levels passed to the constructor do not contain 0.5,
\* the model's quantile_levels are sorted({0.5} | quantile_levels),
\* must_drop_median is true, and no table predict returns has a "0.5" column.
C2_SyntheticMedianDropped ==
    (Constructed /\ ~ Contains(caller.quantile_levels, Median)) =>
        /\ heap["self"].quantile_levels = SortSet({Median} \cup Range(caller.quantile_levels))
        /\ heap["self"].must_drop_median
        /\ Returned("predict") => ~ HasCol(Val(ret.predictions), "0.5")

\* predict returned for a request without 0.5 although the hook emitted "0.5"
C2_Witness ==
    /\ Constructed /\ ~ Contains(caller.quantile_levels, Median)
    /\ caller.quantile_levels # <<>>
    /\ Returned("predict") /\ Contains(ret.raw, "0.5")

\* C3: when the quantile_levels passed to the constructor contain 0.5,
\* must_drop_median is false and every table predict returns has the "0.5"
\* column.
C3_RequestedMedianKept ==
    (Constructed /\ Contains(caller.quantile_levels, Median)) =>
        /\ ~ heap["self"].must_drop_median
        /\ Returned("predict") => HasCol(Val(ret.predictions), "0.5")

\* predict returned for a request with 0.5 although the hook emitted no "0.5"
C3_Witness ==
    /\ Constructed /\ Contains(caller.quantile_levels, Median)
    /\ Returned("predict") /\ ~ Contains(ret.raw, "0.5")
    /\ heap["self"].eval_metric.optimized_by_median

\* C6: a constructor call whose quantile_levels hold a value that is not
\* strictly between 0 and 1 raises and builds no model; a call whose values
\* are all strictly inside (0,1) does not fail on this check.
C6_InvalidQuantilesRejected ==
    ret.op = "__init__" =>
        LET qs == ret.quantile_levels
            valid == \A i \in 1..Len(qs) : 0 < qs[i] /\ qs[i] < QOne
        IN  /\ ~ valid => (ret.exc = "ValueError" /\ ~ Constructed)
            /\ valid => ret.failed # "quantile_levels"

\* a call with the boundary value 1 among otherwise valid values was rejected
C6_Witness ==
    /\ ret.op = "__init__" /\ ret.exc = "ValueError" /\ ~ Constructed
    /\ Contains(ret.quantile_levels, QOne)
    /\ \A i \in 1..Len(ret.quantile_levels) : ret.quantile_levels[i] > 0

----------------------------------------------------------------------------
(* Claims about fit and the hyperparameters (SpecFit) *)

\* min((time_limit - elapsed) * ratio, cap) for the auxiliary arguments of obj
ExpectedBudget(obj, time_limit, elapsed) ==
    LET aux == obj._extra_ag_args
        ratio == IF "max_time_limit_ratio" \in DOMAIN aux
                 THEN aux["max_time_limit_ratio"] ELSE default_max_time_limit_ratio
        scaled == ((time_limit - elapsed) * ratio) \div 10
    IN  IF "max_time_limit" \in DOMAIN aux
        THEN (IF aux["max_time_limit"] < scaled THEN aux["max_time_limit"] ELSE scaled)
        ELSE scaled

\* C4: when fit is called with a time limit and the budget left after
\* subtracting the elapsed time and applying the ratio and the cap is <= 0, fit
\* raises TimeLimitExceeded and never invokes _fit; when it is > 0, _fit is
\* invoked exactly once.
C4_TimeLimitExceeded ==
    (ret.op = "fit" /\ ~ IsNone(ret.time_limit)) =>
        LET left == ExpectedBudget(heap["self"], Val(ret.time_limit), ret.elapsed)
        IN  /\ left <= 0 => (ret.exc = "TimeLimitExceeded" /\ ret.hook_calls = 0)
            /\ left > 0 => (ret.exc # "TimeLimitExceeded" /\ ret.hook_calls = 1)

\* fit raised with exactly nothing left: 10 s given, 10 s elapsed
C4_Witness ==
    /\ ret.op = "fit" /\ ret.exc = "TimeLimitExceeded" /\ ret.hook_calls = 0
    /\ ret.time_limit = Some(ret.elapsed)

\* C5: the time limit handed to _fit is min((time_limit - elapsed) * ratio, cap)
\* with ratio the auxiliary argument max_time_limit_ratio (default 0.9) and cap
\* the auxiliary argument max_time_limit, no capping when it is unset: 100 s
\* give 90 s, 50 s under a cap of 50 s, and 81 s after 10 s elapsed.
C5_BudgetHandedToFit ==
    (ret.op = "fit" /\ ~ IsNone(ret.time_limit) /\ ret.hook_calls = 1) =>
        LET aux == heap["self"]._extra_ag_args
            given == Val(ret.hook_args).time_limit
        IN  /\ given = Some(ExpectedBudget(heap["self"], Val(ret.time_limit), ret.elapsed))
            /\ (ret.time_limit = Some(1000) /\ ret.elapsed = 0 /\ aux = EmptyDict)
                  => given = Some(900)
            /\ (ret.time_limit = Some(1000) /\ ret.elapsed = 0 /\ DOMAIN aux = {"max_time_limit"})
                  => given = Some(500)
            /\ (ret.time_limit = Some(1000) /\ ret.elapsed = 100 /\ aux = EmptyDict)
                  => given = Some(810)

\* _fit was invoked under a cap and a ratio of the auxiliary arguments after
\* some time had elapsed
C5_Witness ==
    /\ ret.op = "fit" /\ ret.hook_calls = 1 /\ ret.elapsed > 0
    /\ ret.time_limit = Some(1000)
    /\ DOMAIN heap["self"]._extra_ag_args = {"max_time_limit", "max_time_limit_ratio"}
    /\ Val(ret.hook_args).time_limit = Some(450)

\* C7: construction fails when the value under the reserved auxiliary-arguments
\* key of the hyperparameters is not a mapping; a non-string key in the
\* hyperparameters does not make construction fail (a warning only).
C7_AuxiliaryArgumentsMustBeMapping ==
    (ret.op = "__init__" /\ ret.failed # "quantile_levels") =>
        LET hp == IF IsNone(ret.hyperparameters) THEN EmptyDict ELSE Val(ret.hyperparameters)
            bad_aux == AG_ARGS_FIT \in DOMAIN hp /\ hp[AG_ARGS_FIT].ty # "dict"
            bad_key == \E k \in DOMAIN hp : k.ty # "str"
        IN  /\ bad_aux => (ret.exc = "ValueError" /\ ~ Constructed)
            /\ ~ bad_aux => (ret.exc = "" /\ Constructed /\ (ret.warned <=> bad_key))

\* a model was built from hyperparameters with a non-string key
C7_Witness ==
    /\ ret.op = "__init__" /\ ret.exc = "" /\ Constructed /\ ret.warned
    /\ IntKey("7") \in DOMAIN Val(ret.hyperparameters)
    /\ IntKey("7") \in DOMAIN heap["self"]._hyperparameters

\* C8: if a hyperparameter value of the model is an unresolved search space
\* when fit is called, fit fails with an error and _fit is not invoked.
C8_SearchSpaceFailsFit ==
    (ret.op = "fit" /\ \E k \in DOMAIN heap["self"]._hyperparameters :
                          heap["self"]._hyperparameters[k].ty = "Space") =>
        (ret.exc # "" /\ ret.hook_calls = 0)

----------------------------------------------------------------------------
(* Claims about the OOF cache and persistence (Spec) *)

\* C9: round trip of the OOF cache: the predictions score_and_cache_oof
\* computed are the OOF predictions the model holds, and a
\* load(path, load_oof=True) that follows a save(path) of a model holding OOF
\* predictions returns a model whose OOF predictions are identical to them.
C9_OOFRoundTrip ==
    [][ /\ (ret'.op = "score_and_cache_oof" /\ ret'.exc = "") =>
               heap'["self"]._oof_predictions = Some(<<Val(ret'.predictions)>>)
        /\ ( /\ ret.op = "save" /\ ret.exc = "" /\ ~ IsNone(ret.oof_before)
             /\ ret'.op = "load" /\ ret'.path = ret.path /\ ret'.load_oof ) =>
               /\ ret'.exc = ""
               /\ Val(ret'.model)._oof_predictions = ret.oof_before
               /\ Val(ret'.model)._oof_predictions = heap["self"]._oof_predictions
      ]_vars

\* a model was loaded with the OOF predictions that score_and_cache_oof cached
C9_Witness ==
    /\ ret.op = "load" /\ ret.exc = "" /\ ret.load_oof
    /\ ~ IsNone(Val(ret.model)._oof_predictions)
    /\ Val(ret.model)._oof_predictions = heap["self"]._oof_predictions
    /\ OOFFile(ret.path) \in DOMAIN disk

\* C10: for every save call that returns, the main artifact holds the model
\* with its OOF predictions cleared; OOF predictions that were present are in
\* the separate OOF artifact, written before the main artifact; and the model
\* in memory holds the OOF predictions it held before the call.
C10_SaveSeparatesOOF ==
    Returned("save") =>
        /\ ModelFile(ret.path) \in DOMAIN disk
        /\ IsNone(disk[ModelFile(ret.path)]._oof_predictions)
        /\ ModelFile(ret.path) # OOFFile(ret.path)
        /\ ~ IsNone(ret.oof_before) =>
              /\ ret.writes = <<OOFFile(ret.path), ModelFile(ret.path)>>
              /\ disk[OOFFile(ret.path)] = Val(ret.oof_before)
        /\ IsNone(ret.oof_before) => ret.writes = <<ModelFile(ret.path)>>
        /\ heap["self"]._oof_predictions = ret.oof_before

\* save returned for a model holding OOF predictions
C10_Witness ==
    /\ Returned("save") /\ ~ IsNone(ret.oof_before)
    /\ Len(ret.writes) = 2

\* C11: every score_and_cache_oof call that returns leaves the OOF cache a list
\* holding exactly one table, the predictions of that call, whatever the
\* flags; val_score changes only when store_val_score is true and predict_time
\* only when store_predict_time is true, otherwise each keeps its value.
C11_ScoreAndCacheFrame ==
    [][ \A c \in Callers :
          ( /\ frames[c].pc = "_predict" /\ frames[c].op = "score_and_cache_oof"
            /\ frames'[c] = Idle /\ ret'.exc = "" ) =>
              LET o == frames[c].o
              IN  /\ heap'[o]._oof_predictions = Some(<<Val(ret'.predictions)>>)
                  /\ Len(Val(heap'[o]._oof_predictions)) = 1
                  /\ ~ frames[c].flags.store_val_score =>
                         heap'[o].val_score = heap[o].val_score
                  /\ ~ frames[c].flags.store_predict_time =>
                         heap'[o].predict_time = heap[o].predict_time
                  /\ frames[c].flags.store_val_score => ~ IsNone(heap'[o].val_score)
                  /\ frames[c].flags.store_predict_time => ~ IsNone(heap'[o].predict_time)
      ]_vars

\* score_and_cache_oof returned after calls that stored the predict time and
\* never the validation score
C11_Witness ==
    /\ Returned("score_and_cache_oof")
    /\ heap["self"]._oof_predictions = Some(<<Val(ret.predictions)>>)
    /\ IsNone(heap["self"].val_score)
    /\ ~ IsNone(heap["self"].predict_time)

----------------------------------------------------------------------------
(* Claims about the refit-full conversions (SpecRefit) *)

FittedState(obj) ==
    <<obj.fit_time, obj.params, obj.target_scaler, obj.covariate_scaler, obj.covariate_regressor>>

\* C12: convert_to_refit_full_via_copy returns an object distinct from the
\* original whose val_score and predict_time are both None whatever the
\* original's were, whose name is the original's name plus the refit-full
\* suffix, and whose fitted state (fit_time, fitted transforms, trained
\* parameters) equals the original's at the time of the call.
C12_ViaCopyResetsStats ==
    Returned("convert_to_refit_full_via_copy") =>
        /\ ~ IsNone(ret.model)
        /\ Val(ret.model) # heap["self"]
        /\ ret.shares = {}
        /\ IsNone(Val(ret.model).val_score)
        /\ IsNone(Val(ret.model).predict_time)
        /\ Val(ret.model).name = ret.before.name \o REFIT_FULL_SUFFIX
        /\ FittedState(Val(ret.model)) = FittedState(ret.before)

\* a fitted model with a validation score and a predict time was converted
C12_Witness ==
    /\ Returned("convert_to_refit_full_via_copy")
    /\ ~ IsNone(ret.before.val_score) /\ ~ IsNone(ret.before.predict_time)
    /\ ~ IsNone(ret.before.params)
    /\ ret.before.target_scaler.fit_on # ""
    /\ IsNone(Val(ret.model).val_score)

\* C13: for every model M built from a quantile request Q,
\* convert_to_refit_full_template returns an unfitted model whose name is M's
\* name plus the refit-full suffix and whose quantile_levels and
\* must_drop_median equal those of a model freshly constructed with Q, and so
\* M's, both when Q contains 0.5 and when it does not.
C13_TemplateRecomputesQuantiles ==
    Returned("convert_to_refit_full_template") =>
        LET t == Val(ret.model)
            fresh == InitQuantiles(caller.quantile_levels)
        IN  /\ ~ IsNone(ret.model)
            /\ t.name = ret.before.name \o REFIT_FULL_SUFFIX
            /\ IsNone(t.params) /\ IsNone(t.fit_time)
            /\ t.target_scaler = Unset /\ t.covariate_scaler = Unset
            /\ t.covariate_regressor = Unset
            /\ IsNone(t._oof_predictions) /\ IsNone(t.val_score) /\ IsNone(t.predict_time)
            /\ t.quantile_levels = fresh.quantile_levels
            /\ t.must_drop_median = fresh.must_drop_median
            /\ t.quantile_levels = ret.before.quantile_levels
            /\ t.must_drop_median = ret.before.must_drop_median

\* the template of a fitted model whose request did not contain the median
C13_Witness ==
    /\ Returned("convert_to_refit_full_template")
    /\ ~ Contains(caller.quantile_levels, Median)
    /\ ret.before.must_drop_median
    /\ ~ IsNone(ret.before.params)
    /\ Val(ret.model).must_drop_median

\* what C14 says a conversion leaves alone in the original
Kept(obj) ==
    <<obj.quantile_levels, obj._hyperparameters, obj._extra_ag_args, obj.must_drop_median,
      obj.val_score, obj.predict_time>>
Held(obj) == <<obj.quantile_levels, obj._hyperparameters, obj._extra_ag_args>>

C15_GetParamsReconstructs ==
    (ret.op = "get_params") =>
        LET M == heap["self"]
            split == _check_and_split_hyperparameters(Some(ret.params.hyperparameters))
        IN  /\ ret.exc = ""
            /\ Val(ret.model).name = M.name
            /\ Val(ret.model).path = M.path
            /\ Val(ret.model).path_root = M.path_root
            /\ Val(ret.model)._hyperparameters = M._hyperparameters
            /\ Val(ret.model)._extra_ag_args = M._extra_ag_args
            /\ split.hyperparameters = M._hyperparameters
            /\ split.extra_ag_args = M._extra_ag_args
            /\ Val(ret.model).quantile_levels = M.quantile_levels
            /\ Val(ret.model).must_drop_median = M.must_drop_median

\* C15 without its must_drop_median conjunct
C15_AllButMustDropMedian ==
    (ret.op = "get_params") =>
        LET M == heap["self"]
            split == _check_and_split_hyperparameters(Some(ret.params.hyperparameters))
        IN  /\ ret.exc = ""
            /\ Val(ret.model).name = M.name
            /\ Val(ret.model).path = M.path
            /\ Val(ret.model).path_root = M.path_root
            /\ Val(ret.model)._hyperparameters = M._hyperparameters
            /\ Val(ret.model)._extra_ag_args = M._extra_ag_args
            /\ split.hyperparameters = M._hyperparameters
            /\ split.extra_ag_args = M._extra_ag_args
            /\ Val(ret.model).quantile_levels = M.quantile_levels
            /\ M.must_drop_median = ~ Val(ret.model).must_drop_median
                   => ~ Contains(caller.quantile_levels, Median)

----------------------------------------------------------------------------
(* Claims about load (Spec) *)

EndsWith(s, t) == Len(t) <= Len(s) /\ SubSeq(s, Len(s) - Len(t) + 1, Len(s)) = t

----------------------------------------------------------------------------
(* Claims about the steps of fit (SpecFit) *)

\* C17: the resource arguments _fit receives are the discovered num_cpus and
\* num_gpus merged with the keyword arguments of the fit call: the caller's
\* value on every key the caller supplied, the discovered value on the others.
C17_CallerResourcesWin ==
    (ret.op = "fit" /\ ~ IsNone(ret.hook_args)) =>
        LET resources == Val(ret.hook_args).resources
        IN  /\ DOMAIN resources = DOMAIN _get_system_resources \cup DOMAIN ret.kwargs
            /\ \A k \in DOMAIN resources :
                  resources[k] = IF k \in DOMAIN ret.kwargs THEN ret.kwargs[k]
                                 ELSE _get_system_resources[k]

\* _fit was called by a fit whose caller supplied a num_cpus that differs from
\* the discovered one
C17_Witness ==
    /\ ret.op = "fit" /\ ~ IsNone(ret.hook_args)
    /\ "num_cpus" \in DOMAIN ret.kwargs
    /\ ret.kwargs["num_cpus"] # _get_system_resources["num_cpus"]
    /\ Val(ret.hook_args).resources["num_cpus"] = ret.kwargs["num_cpus"]
    /\ Val(ret.hook_args).resources["num_gpus"] = _get_system_resources["num_gpus"]

----------------------------------------------------------------------------
(* Claims about the invariant of quantile_levels (SpecRefit) *)

WellFormedQuantiles(q) ==
    /\ \A i \in 1..Len(q) : \A j \in 1..Len(q) : i < j => q[i] < q[j]
    /\ \A i \in 1..Len(q) : 0 < q[i] /\ q[i] < QOne
    /\ Contains(q, Median)

\* C18: on every constructed model, after every operation, and on every model
\* a conversion or load returns, quantile_levels is sorted ascending, has no
\* duplicates, has every value strictly inside (0,1), and contains 0.5.
C18_QuantileLevelsWellFormed ==
    /\ Constructed => WellFormedQuantiles(heap["self"].quantile_levels)
    /\ (ret.op \in RefitOps /\ ret.exc = "") =>
           WellFormedQuantiles(Val(ret.model).quantile_levels)

\* the position of step in trace, 0 when it did not run
Index(trace, step) ==
    IF \E i \in 1..Len(trace) : trace[i] = step
    THEN CHOOSE i \in 1..Len(trace) : trace[i] = step /\ \A j \in 1..(i - 1) : trace[j] # step
    ELSE 0
Ran(trace, step) == Index(trace, step) > 0
Count(trace, step) == Cardinality({i \in 1..Len(trace) : trace[i] = step})

\* the steps C19 orders, in the order it gives them
FitOrder ==
    << "_initialize_transforms_and_regressor",
       "target_scaler.fit_transform(train)",
       "covariate_scaler.fit_transform(train)",
       "covariate_regressor.fit(train)",
       "covariate_regressor.transform(train)",
       "preprocess(train)",
       "_preprocess_time_limit",
       "_fit" >>

\* the transformation each step applies to the data it is given
StageOf(step) ==
    CASE step = "target_scaler.fit_transform(train)" -> "target_scaler.fit_transform"
      [] step = "covariate_scaler.fit_transform(train)" -> "covariate_scaler.fit_transform"
      [] step = "covariate_regressor.transform(train)" -> "covariate_regressor.transform"
      [] step = "preprocess(train)" -> "preprocess"
      [] step = "target_scaler.transform(val)" -> "target_scaler.transform"
      [] step = "covariate_scaler.transform(val)" -> "covariate_scaler.transform"
      [] step = "covariate_regressor.transform(val)" -> "covariate_regressor.transform"
      [] step = "preprocess(val)" -> "preprocess"
      [] OTHER -> ""

IsTrainStage(step) ==
    step \in {"target_scaler.fit_transform(train)", "covariate_scaler.fit_transform(train)",
              "covariate_regressor.transform(train)", "preprocess(train)"}
IsValStep(step) ==
    step \in {"target_scaler.transform(val)", "covariate_scaler.transform(val)",
              "covariate_regressor.transform(val)", "preprocess(val)",
              "target_scaler.fit_transform(val)", "covariate_scaler.fit_transform(val)",
              "covariate_regressor.fit(val)"}
Stages(steps) == [i \in 1..Len(steps) |-> StageOf(steps[i])]

\* C19: within one fit call the transforms are instantiated first; then the
\* target scaler is fit-transformed on the training data, then the covariate
\* scaler, then the covariate regressor is fit (each if configured); then,
\* only if the model can use training data, the regressor's transform and
\* preprocess are applied to the training data; then the time budget is
\* computed; and _fit is called last, with the training data as the steps
\* that ran left it.
C19_FitStepOrder ==
    (ret.op = "fit") =>
        LET trace == ret.trace
            M == heap["self"]
        IN  /\ trace[1] = FitOrder[1]
            /\ \A i \in 1..Len(FitOrder) : Count(trace, FitOrder[i]) <= 1
            /\ \A i \in 1..Len(FitOrder) : \A j \in 1..Len(FitOrder) :
                  (i < j /\ Ran(trace, FitOrder[i]) /\ Ran(trace, FitOrder[j])) =>
                      Index(trace, FitOrder[i]) < Index(trace, FitOrder[j])
            /\ Ran(trace, "target_scaler.fit_transform(train)") <=> M.target_scaler.st = "obj"
            /\ Ran(trace, "covariate_scaler.fit_transform(train)") <=> M.covariate_scaler.st = "obj"
            /\ Ran(trace, "covariate_regressor.fit(train)") <=> M.covariate_regressor.st = "obj"
            /\ Ran(trace, "covariate_regressor.transform(train)") <=>
                  (M.cls.can_use_train_data /\ M.covariate_regressor.st = "obj")
            /\ Ran(trace, "preprocess(train)") <=> M.cls.can_use_train_data
            /\ Ran(trace, "_preprocess_time_limit") <=> ~ IsNone(ret.time_limit)
            /\ Ran(trace, "_fit") <=> ~ IsNone(ret.hook_args)
            /\ Ran(trace, "_fit") =>
                  /\ trace[Len(trace)] = "_fit"
                  /\ Val(ret.hook_args).train_data.src = "train"
                  /\ Val(ret.hook_args).train_data.tf = Stages(SelectSeq(trace, IsTrainStage))

\* a fit with the whole pipeline configured and a time limit, on a model that
\* can use training data, reached _fit
C19_Witness ==
    /\ Returned("fit")
    /\ ret.trace = FitOrder
    /\ Len(Val(ret.hook_args).train_data.tf) = 4

\* C20: fit transforms the validation data only when the model declares
\* can_use_val_data and validation data was supplied; it then passes them
\* through the target scaler's transform, the covariate scaler's transform,
\* the covariate regressor's transform and preprocess, in that order, each
\* transform having been fitted on the training data earlier in the same
\* call; no transform is fit or refit on the validation data.
C20_ValidationDataTransformedNotFit ==
    (ret.op = "fit") =>
        LET trace == ret.trace
            M == heap["self"]
            use_val == M.cls.can_use_val_data /\ ~ IsNone(ret.val_data)
            steps == SelectSeq(trace, IsValStep)
            expected ==
                (IF M.target_scaler.st = "obj" THEN <<"target_scaler.transform(val)">> ELSE <<>>)
                \o (IF M.covariate_scaler.st = "obj" THEN <<"covariate_scaler.transform(val)">> ELSE <<>>)
                \o (IF M.covariate_regressor.st = "obj" THEN <<"covariate_regressor.transform(val)">> ELSE <<>>)
                \o <<"preprocess(val)">>
        IN  /\ steps = IF use_val THEN expected ELSE <<>>
            /\ Ran(trace, "target_scaler.transform(val)") =>
                  /\ Ran(trace, "target_scaler.fit_transform(train)")
                  /\ Index(trace, "target_scaler.fit_transform(train)")
                        < Index(trace, "target_scaler.transform(val)")
            /\ Ran(trace, "covariate_scaler.transform(val)") =>
                  /\ Ran(trace, "covariate_scaler.fit_transform(train)")
                  /\ Index(trace, "covariate_scaler.fit_transform(train)")
                        < Index(trace, "covariate_scaler.transform(val)")
            /\ Ran(trace, "covariate_regressor.transform(val)") =>
                  /\ Ran(trace, "covariate_regressor.fit(train)")
                  /\ Index(trace, "covariate_regressor.fit(train)")
                        < Index(trace, "covariate_regressor.transform(val)")
            /\ \A t \in {M.target_scaler, M.covariate_scaler, M.covariate_regressor} :
                  t.st = "obj" => t.fit_on = "train"
            /\ ~ IsNone(ret.hook_args) =>
                  LET val_data == Val(ret.hook_args).val_data
                  IN  /\ IsNone(val_data) <=> IsNone(ret.val_data)
                      /\ ~ IsNone(val_data) =>
                            /\ Val(val_data).src = Val(ret.val_data)
                            /\ Val(val_data).tf = Stages(steps)

\* a fit with the whole pipeline configured, on a model that can use
\* validation data and was given them, reached _fit
C20_Witness ==
    /\ Returned("fit")
    /\ heap["self"].cls.can_use_val_data /\ ~ IsNone(ret.val_data)
    /\ Len(SelectSeq(ret.trace, IsValStep)) = 4
    /\ Len(Val(Val(ret.hook_args).val_data).tf) = 4
    /\ heap["self"].target_scaler.fit_on = "train"

----------------------------------------------------------------------------
(* Claims about the stages of predict (SpecPredict) *)

\* the stages C21 orders, in the order it gives them
PredictOrder ==
    << "target_scaler.fit_transform",
       "covariate_scaler.fit_transform",
       "covariate_regressor.fit_transform",
       "preprocess",
       "_predict",
       "reconcile",
       "covariate_regressor.inverse_transform",
       "target_scaler.inverse_transform" >>

IsInverseStage(stage) ==
    stage \in {"covariate_regressor.inverse_transform", "target_scaler.inverse_transform"}

\* C21: within one predict call the stages run in this order: target scaler
\* forward, covariate scaler forward, covariate regressor forward, preprocess,
\* the _predict hook, reconciliation of the quantile columns, covariate
\* regressor inverse, target scaler inverse; every forward stage of a
\* transform the model holds runs before _predict, every inverse stage after
\* the reconciliation, the target scaler's inverse last and with the scaler
\* as the same call fitted it.
C21_PredictStageOrder ==
    (AllIdle /\ ret.op = "predict" /\ ret.exc # "AttributeError") =>
        LET trace == ret.trace
            M == heap["self"]
        IN  /\ \A i \in 1..Len(PredictOrder) : Count(trace, PredictOrder[i]) <= 1
            /\ \A i \in 1..Len(trace) : \E j \in 1..Len(PredictOrder) : trace[i] = PredictOrder[j]
            /\ \A i \in 1..Len(PredictOrder) : \A j \in 1..Len(PredictOrder) :
                  (i < j /\ Ran(trace, PredictOrder[i]) /\ Ran(trace, PredictOrder[j])) =>
                      Index(trace, PredictOrder[i]) < Index(trace, PredictOrder[j])
            /\ Ran(trace, "preprocess") /\ Ran(trace, "_predict")
            /\ Ran(trace, "target_scaler.fit_transform") <=> M.target_scaler.st = "obj"
            /\ Ran(trace, "covariate_scaler.fit_transform") <=> M.covariate_scaler.st = "obj"
            /\ ret.exc = "" =>
                  /\ Ran(trace, "reconcile")
                  /\ Ran(trace, "covariate_regressor.fit_transform") <=> M.covariate_regressor.st = "obj"
                  /\ Ran(trace, "covariate_regressor.inverse_transform") <=> M.covariate_regressor.st = "obj"
                  /\ Ran(trace, "target_scaler.inverse_transform") <=> M.target_scaler.st = "obj"
                  /\ M.target_scaler.st = "obj" =>
                        /\ trace[Len(trace)] = "target_scaler.inverse_transform"
                        /\ M.target_scaler.fit_on = "predict"
                  /\ Val(ret.predictions).tf = SelectSeq(trace, IsInverseStage)

\* a predict with the whole pipeline configured returned
C21_Witness ==
    /\ Returned("predict")
    /\ ret.trace = PredictOrder
    /\ Val(ret.predictions).tf = <<"covariate_regressor.inverse_transform", "target_scaler.inverse_transform">>

\* C22: while the _predict hook of a predict call runs, the model's covariate
\* regressor reference is None; when predict returns, the reference is the
\* regressor the model held when the call was made, which the inverse step of
\* the same call has used and a later predict finds.
C22_RegressorDetachedDuringHook ==
    [][ /\ \A c \in Callers :
              frames'[c].pc = "_predict" =>
                  heap'[frames'[c].o].covariate_regressor = NoTransform
        /\ \A c \in Callers :
              (frames[c].pc = "_predict" /\ frames'[c] = Idle /\ ret'.exc = "") =>
                  /\ heap'[frames[c].o].covariate_regressor = frames[c].covariate_regressor
                  /\ frames[c].covariate_regressor.st = "obj" =>
                        /\ Ran(frames[c].trace, "covariate_regressor.fit_transform")
                        /\ Ran(ret'.trace, "covariate_regressor.inverse_transform")
        /\ \A c \in Callers :
              (frames[c] = Idle /\ frames'[c].pc = "_predict") =>
                  /\ frames'[c].covariate_regressor.st = heap[frames'[c].o].covariate_regressor.st
                  /\ frames'[c].covariate_regressor.kind = heap[frames'[c].o].covariate_regressor.kind
      ]_vars

\* a second predict of a model with a regressor is inside the hook after the
\* first returned with the regressor restored
C22_Witness ==
    /\ Returned("predict")
    /\ Ran(ret.trace, "covariate_regressor.inverse_transform")
    /\ frames["c1"].pc = "_predict"
    /\ frames["c1"].covariate_regressor.st = "obj"
    /\ heap["self"].covariate_regressor = NoTransform

\* C23: in a predict that returns, when the evaluation metric is optimized by
\* the median the mean column of the table returned is the 0.5-quantile
\* forecast of the reconciled table (the hook's "0.5" column, NaN when the
\* hook gave none), also when the median is synthetic and dropped from the
\* output; when the metric is not optimized by the median the mean column is
\* the hook's mean.
C23_MeanFromMedian ==
    Returned("predict") =>
        LET M == heap["self"]
            out == Val(ret.predictions)
            median_forecast == IF Contains(ret.raw, "0.5") THEN "0.5" ELSE "NaN"
            hook_mean == IF Contains(ret.raw, "mean") THEN "mean" ELSE "NaN"
        IN  /\ HasCol(out, "mean")
            /\ M.eval_metric.optimized_by_median => ColVal(out, "mean") = median_forecast
            /\ ~ M.eval_metric.optimized_by_median => ColVal(out, "mean") = hook_mean

\* predict returned the hook's median as the mean and dropped the synthetic
\* "0.5" column
C23_Witness ==
    /\ Returned("predict")
    /\ heap["self"].eval_metric.optimized_by_median
    /\ heap["self"].must_drop_median
    /\ Contains(ret.raw, "0.5") /\ Contains(ret.raw, "mean")
    /\ ~ HasCol(Val(ret.predictions), "0.5")
    /\ ColVal(Val(ret.predictions), "mean") = "0.5"

\* the model was fitted with a covariate regressor in its hyperparameters
RegressorConfigured ==
    /\ Constructed
    /\ heap["self"].target_scaler.st # "unset"
    /\ ~ IsNone(HPGet(get_hyperparameters(heap["self"]), "covariate_regressor"))

\* C26: when a predict call on a model with a covariate regressor ends,
\* whether it returns or the _predict hook raised, the model's covariate
\* regressor reference is the regressor the model held when the call was made.
C26_RegressorRestoredOnEveryExit ==
    [][ \A c \in Callers :
            (/\ frames[c].pc = "_predict"
             /\ frames'[c] = Idle
             /\ frames[c].covariate_regressor.st = "obj") =>
                heap'[frames[c].o].covariate_regressor = frames[c].covariate_regressor
      ]_vars

\* C29: when predict calls on one model overlap, every call that returns has
\* run the forward and the inverse step of the covariate regressor the model
\* was fitted with, and once all calls have returned the model's covariate
\* regressor reference is that regressor.
C29_OverlappingPredictsKeepRegressor ==
    (Returned("predict") /\ RegressorConfigured) =>
        /\ Ran(ret.trace, "covariate_regressor.fit_transform")
        /\ Ran(ret.trace, "covariate_regressor.inverse_transform")
        /\ AllIdle => heap["self"].covariate_regressor.st = "obj"

----------------------------------------------------------------------------
(* Claims about names and paths (SpecRename) *)

HasSep(s) == \E i \in 1..Len(s) : s[i] = SEP

\* C24 as stated: after rename(new_name) the name is new_name, the path is the
\* parent directory of the previous path joined with new_name and the root
\* path is unchanged; rename(a) followed by rename(b) gives the name and path
\* of rename(b) alone, for every a.
C24_RenameAsStated ==
    (ret.op = "rename") =>
        LET M == heap["self"]
        IN  /\ M.name = ret.name
            /\ M.path = PathJoin(DirName(ret.before.path), ret.name)
            /\ M.path_root = ret.before.path_root
            /\ ~ IsNone(ret.first) =>
                  /\ M.name = rename(Val(ret.first), ret.name).name
                  /\ M.path = rename(Val(ret.first), ret.name).path

\* C24: after rename(new_name) the name is new_name, the path is the parent
\* directory of the previous path joined with new_name and the root path is
\* unchanged; rename(a) followed by rename(b) gives the name and path of
\* rename(b) alone when a contains no path separator.
C24_RenameReplacesLastComponent ==
    (ret.op = "rename") =>
        LET M == heap["self"]
        IN  /\ M.name = ret.name
            /\ M.path = PathJoin(DirName(ret.before.path), ret.name)
            /\ M.path_root = ret.before.path_root
            /\ (~ IsNone(ret.first) /\ ~ HasSep(ret.before.name)) =>
                  /\ M.name = rename(Val(ret.first), ret.name).name
                  /\ M.path = rename(Val(ret.first), ret.name).path

\* a model was renamed twice in a row, first to a plain name
C24_Witness ==
    /\ ret.op = "rename" /\ ~ IsNone(ret.first)
    /\ ~ HasSep(ret.before.name)
    /\ ret.before.name # ret.name
    /\ Val(ret.first).name # ret.before.name
    /\ heap["self"].path = PathJoin(DirName(Val(ret.first).path), ret.name)

\* C25: a convert_to_refit_full_via_copy that returns leaves the original
\* model's name and path equal to their values before the call, also for a
\* model whose path does not end with its name as its last component.
C25_ViaCopyKeepsNameAndPath ==
    Returned("convert_to_refit_full_via_copy") =>
        /\ heap["self"].name = ret.before.name
        /\ heap["self"].path = ret.before.path

----------------------------------------------------------------------------
(* Claims about fit without a time limit and the caller's mapping (SpecFit) *)

\* C28: a fit called with time_limit None makes no time-budget adjustment or
\* check: _preprocess_time_limit is not run, TimeLimitExceeded is not raised,
\* the _fit hook is invoked with time_limit None, also when the auxiliary
\* arguments set max_time_limit or max_time_limit_ratio; and a covariate
\* regressor is fit with time limit None.
C28_NoLimitNoBudget ==
    (ret.op = "fit" /\ IsNone(ret.time_limit)) =>
        /\ ret.exc # "TimeLimitExceeded"
        /\ ~ Ran(ret.trace, "_preprocess_time_limit")
        /\ ret.hook_calls = 1
        /\ ~ IsNone(ret.hook_args)
        /\ IsNone(Val(ret.hook_args).time_limit)
        /\ Ran(ret.trace, "covariate_regressor.fit(train)") =>
              /\ ~ IsNone(ret.covariate_regressor_time_limit)
              /\ IsNone(Val(ret.covariate_regressor_time_limit))

\* a fit without a time limit returned for a model with a covariate regressor
\* whose auxiliary arguments set both the cap and the ratio
C28_Witness ==
    /\ Returned("fit")
    /\ IsNone(ret.time_limit)
    /\ DOMAIN heap["self"]._extra_ag_args = {"max_time_limit", "max_time_limit_ratio"}
    /\ IsNone(Val(ret.hook_args).time_limit)
    /\ ret.covariate_regressor_time_limit = Some(None)

\* C30: a constructor call, failed or not, leaves the hyperparameters mapping
\* the caller passed as it was, the reserved auxiliary-arguments key and its
\* value included; the model built has its own hyperparameters without that
\* key and with every other entry, and its auxiliary arguments are the value
\* that was stored under the key, the empty mapping when the key was absent.
C30_ConstructorKeepsCallersMapping ==
    ret.op = "__init__" =>
        LET hp == IF IsNone(ret.hyperparameters) THEN EmptyDict ELSE Val(ret.hyperparameters)
        IN  /\ caller.hyperparameters = ret.hyperparameters
            /\ ret.exc = "" =>
                  /\ AG_ARGS_FIT \notin DOMAIN heap["self"]._hyperparameters
                  /\ DOMAIN heap["self"]._hyperparameters = DOMAIN hp \ {AG_ARGS_FIT}
                  /\ \A k \in DOMAIN hp \ {AG_ARGS_FIT} : heap["self"]._hyperparameters[k] = hp[k]
                  /\ heap["self"]._extra_ag_args =
                        IF AG_ARGS_FIT \in DOMAIN hp THEN hp[AG_ARGS_FIT].d ELSE EmptyDict

\* a model was built from a mapping holding auxiliary arguments next to a
\* hyperparameter, and the caller's mapping still holds both
C30_Witness ==
    /\ ret.op = "__init__" /\ ret.exc = "" /\ Constructed
    /\ ~ IsNone(caller.hyperparameters)
    /\ DOMAIN Val(caller.hyperparameters) = {AG_ARGS_FIT, StrKey("epochs")}
    /\ Val(caller.hyperparameters)[AG_ARGS_FIT] = PyDict([k \in {"max_time_limit"} |-> 500])
    /\ DOMAIN heap["self"]._hyperparameters = {StrKey("epochs")}
    /\ DOMAIN heap["self"]._extra_ag_args = {"max_time_limit"}

----------------------------------------------------------------------------
(* Claims about what a failing save leaves behind (Spec) *)

\* C27: after a save call on a model holding OOF predictions, whether save
\* returned or a write raised, the model holds in memory the OOF predictions
\* it held before the call.
C27_SaveKeepsOOFInMemory ==
    (ret.op = "save" /\ ~ IsNone(ret.oof_before)) =>
        heap["self"]._oof_predictions = ret.oof_before

====
